---- MODULE Spec2Model ----
(***************************************************************************)
(* A model of idutils: the custom scheme registry (idutils/ext.py), its    *)
(* thread-safe singleton construction, and the scheme detector             *)
(* (idutils/detectors.py).                                                 *)
(*                                                                         *)
(* Spec        the registry: threads calling CustomSchemesRegistry()       *)
(* SpecDetect  detect_identifier_schemes applied to one value              *)
(***************************************************************************)
EXTENDS Integers, Sequences, FiniteSets, TLC

VARIABLES
    entry_points,   \* what entry_points(group="idutils.custom_schemes") yields, in discovery order
    lock,           \* CustomSchemesRegistry._lock: 0 when free, else the thread holding it
    _instance,      \* CustomSchemesRegistry._instance: 0 for None, else an index into objects
    objects,        \* objects[i]: the _custom_schemes_registry of the i-th instance created
    pc,             \* pc[t]: where thread t stands in __new__
    self,           \* self[t]: the instance thread t is loading entry points into
    todo,           \* todo[t]: the registrations thread t's loop has still to visit
    ret,            \* ret[t]: what thread t's last finished call returned (0: nothing yet)
    calls,          \* the calls of CustomSchemesRegistry() started so far, by any thread
    loads,          \* how many times _load_entry_points was entered
    failure,        \* "" or the error that ended _load_entry_points
    dval,           \* SpecDetect: the value handed to detect_identifier_schemes
    dreg,           \* SpecDetect, SpecUrl: the registry the proxies resolve to
    dout,           \* SpecDetect: the detector's trace and result, or NoResult
    arg_val,        \* SpecUrl: the val handed to normalize_pid or to_url
    arg_scheme,     \* SpecUrl: the scheme handed to it
    arg_url_scheme, \* SpecUrl: the url_scheme handed to to_url
    out,            \* SpecUrl: what the call returned or raised, or NoCall
    tables,         \* SpecCalls: the module-level lists IDUTILS_PID_SCHEMES and IDUTILS_SCHEME_FILTER
    seen            \* SpecCalls: the calls made so far (history, the program does not read it)

vars == <<entry_points, lock, _instance, objects, pc, self, todo, ret, calls,
          loads, failure, dval, dreg, dout, arg_val, arg_scheme, arg_url_scheme, out,
          tables, seen>>

regvars == <<entry_points, lock, _instance, objects, pc, self, todo, ret, calls,
             loads, failure>>

detvars == <<dval, dreg, dout>>

urlvars == <<arg_val, arg_scheme, arg_url_scheme, out>>

callvars == <<tables, seen>>

----------------------------------------------------------------------------
(* Bounds *)

NumThreads == 2

MaxCalls == 3

MaxEntryPoints == 2

MaxMatched == 3

Threads == 1..NumThreads

----------------------------------------------------------------------------
(* Generic helpers *)

Range(s) == {s[i] : i \in 1..Len(s)}

IsPrefix(p, s) == Len(p) <= Len(s) /\ \A i \in 1..Len(p) : s[i] = p[i]

\* str.startswith
startswith(s, p) == IsPrefix(p, s)

\* All orders in which the elements of a finite set can be visited
Orders(S) ==
    {s \in [1..Cardinality(S) -> S] : \A i, j \in 1..Cardinality(S) : s[i] = s[j] => i = j}

\* The sequences over S of length at most n
SeqUpTo(S, n) == UNION {[1..k -> S] : k \in 0..n}

\* list(filter(lambda x: keep(x), s)) for keep(x) == x \notin R
FilterOut(s, R) == SelectSeq(s, LAMBDA x : x \notin R)

----------------------------------------------------------------------------
(* idutils/schemes.py *)

\* The names of IDUTILS_PID_SCHEMES of idutils/schemes.py, in declared order
SCHEMES_PID_SCHEME_NAMES ==
    << "doi", "ark", "handle", "purl", "lsid", "urn", "ads", "arxiv", "ascl",
       "hal", "pmcid", "isbn", "issn", "orcid", "isni", "ean13", "ean8", "istc",
       "gnd", "ror", "pmid", "url", "sra", "bioproject", "biosample", "ensembl",
       "uniprot", "refseq", "genome", "geo", "arrayexpress_array",
       "arrayexpress_experiment", "swh", "viaf", "email", "sha1" >>

\* existing_id_names = set(scheme[0] for scheme in IDUTILS_PID_SCHEMES)
existing_id_names == Range(SCHEMES_PID_SCHEME_NAMES)

----------------------------------------------------------------------------
(* idutils/ext.py: configurations *)

ConfigKeys == {"validator", "normalizer", "filter", "url_generator"}

\* default_config of _set_default_custom_scheme_config. The three lambdas are
\* named by what they compute.
default_config ==
    [ validator     |-> "lambda_true",
      normalizer    |-> "lambda_identity",
      filter        |-> << >>,
      url_generator |-> "lambda_none" ]

\* assert all(scheme_key in default_config.keys() for scheme_key in scheme_config.keys())
ConfigKeysKnown(scheme_config) == \A k \in DOMAIN scheme_config : k \in DOMAIN default_config

\* the merge with its operands swapped: {**scheme_config, **default_config}
MergeDefaultsWin(scheme_config) ==
    [k \in (DOMAIN default_config) \cup (DOMAIN scheme_config) |->
        IF k \in DOMAIN default_config THEN default_config[k] ELSE scheme_config[k]]

\* {**default_config, **scheme_config}
MergeConfig(scheme_config) ==
    [k \in (DOMAIN default_config) \cup (DOMAIN scheme_config) |->
        IF k \in DOMAIN scheme_config THEN scheme_config[k] ELSE default_config[k]]

----------------------------------------------------------------------------
(* The registrations the discovery mechanism may yield.  An entry point is  *)
(* (name, value, group); value names the object ep.load() returns, which is *)
(* described here by kind (a factory, or something not callable) and, for a *)
(* factory, by the mapping it returns.                                      *)

EP(name, value, kind, config) ==
    [name |-> name, value |-> value, kind |-> kind, config |-> config]

\* tests/mock_module/custom_schemes.py: custom_scheme
ep_custom_scheme ==
    EP("custom_scheme", "mock_module.custom_schemes:custom_scheme", "factory",
       [ validator     |-> "is_custom_scheme_valid",
         normalizer    |-> "mock_identity",
         filter        |-> << "orcid" >>,
         url_generator |-> "mock_url" ])

\* a factory that leaves normalizer and filter to their defaults
ep_custom_scheme2 ==
    EP("custom_scheme2", "mock_module.custom_schemes:custom_scheme2", "factory",
       [ validator     |-> "is_custom_scheme2_valid",
         url_generator |-> "mock_url2" ])

\* another distribution registering the name custom_scheme again, all defaults
ep_custom_scheme_again ==
    EP("custom_scheme", "other_module:custom_scheme", "factory",
       [k \in {} |-> "none"])

\* a registration under a built-in name
ep_doi ==
    EP("doi", "other_module:doi", "factory", [ validator |-> "other_validator" ])

\* a registration whose loaded object is not callable
ep_not_callable ==
    EP("custom_constant", "other_module:SOME_VALUE", "not_callable",
       [k \in {} |-> "none"])

\* a factory whose mapping has a key that is none of the four
ep_unknown_key ==
    EP("custom_extra", "other_module:custom_extra", "factory",
       [ validator |-> "other_validator", priority |-> "high" ])

\* a scheme accepting every value whose filter names a custom and a built-in scheme
ep_custom_filter ==
    EP("custom_filter", "other_module:custom_filter", "factory",
       [ filter |-> << "custom_scheme", "url" >> ])

\* a scheme with a normalizer that changes the value and no url generator
ep_custom_upper ==
    EP("custom_upper", "other_module:custom_upper", "factory",
       [ normalizer |-> "str_upper" ])

\* a scheme with a normalizer that changes the value and a url generator
ep_custom_upper_url ==
    EP("custom_upper", "third_module:custom_upper", "factory",
       [ normalizer |-> "str_upper", url_generator |-> "mock_url2" ])

SampleEntryPoints ==
    { ep_custom_scheme, ep_custom_scheme2, ep_custom_scheme_again, ep_doi,
      ep_not_callable, ep_unknown_key }

\* a registration _load_entry_points stores without raising
GoodEntryPoint(ep) ==
    /\ ep.name \notin existing_id_names
    /\ ep.kind = "factory"
    /\ ConfigKeysKnown(ep.config)

----------------------------------------------------------------------------
(* idutils/ext.py: the registry, a dict kept as the sequence of its items   *)
(* in insertion order.  Each item also remembers the registration it was    *)
(* built from (field ep, a history field the program does not read).        *)

RegNames(reg) == {reg[i].name : i \in 1..Len(reg)}

RegIndex(reg, name) == CHOOSE i \in 1..Len(reg) : reg[i].name = name

\* dict.setdefault(name, scheme_config)
setdefault(reg, name, scheme_config, ep) ==
    IF name \in RegNames(reg)
    THEN reg
    ELSE Append(reg, [name |-> name, config |-> scheme_config, ep |-> ep])

\* self.custom_schemes.items() seen through pick_scheme_key(key)
pick_scheme_key(reg, key) ==
    [i \in 1..Len(reg) |-> << reg[i].name, reg[i].config[key] >>]

\* the iteration without the assertion on the name
LoadOneNoNameCheck(reg, ep) ==
    IF ep.kind # "factory"
    THEN [err |-> "AssertionError: must be callable!", reg |-> reg]
    ELSE IF ~ConfigKeysKnown(ep.config)
    THEN [err |-> "AssertionError", reg |-> reg]
    ELSE [err |-> "", reg |-> setdefault(reg, ep.name, MergeConfig(ep.config), ep)]

\* One iteration of the loop of _load_entry_points: the registry after it, or
\* the error it raises (the registry is then as it was).
LoadOne(reg, ep) ==
    IF ep.name \in existing_id_names
    THEN [err |-> "AssertionError: Scheme already exists!", reg |-> reg]
    ELSE IF ep.kind # "factory"
    THEN [err |-> "AssertionError: must be callable!", reg |-> reg]
    ELSE IF ~ConfigKeysKnown(ep.config)
    THEN [err |-> "AssertionError", reg |-> reg]
    ELSE [err |-> "", reg |-> setdefault(reg, ep.name, MergeConfig(ep.config), ep)]

\* The whole loop over the registrations in the order `order`
RECURSIVE LoadAll(_, _)
LoadAll(reg, order) ==
    IF order = << >>
    THEN [err |-> "", reg |-> reg]
    ELSE LET one == LoadOne(reg, Head(order))
         IN  IF one.err # "" THEN one ELSE LoadAll(one.reg, Tail(order))

\* set(entry_points(group=ep_name)): equal registrations collapse into one, and
\* the set is visited in an order that is not the discovery order (it follows
\* the elements' hashes, which differ from run to run).
IterationOrders(eps) == Orders(Range(eps))

----------------------------------------------------------------------------
(* idutils/ext.py: CustomSchemesRegistry.__new__, one action per step of a  *)
(* calling thread.                                                          *)

NoDict == << [name |-> "(no _custom_schemes_registry attribute)"] >>

RAISED == -1

\* the environments: what the discovery mechanism yields, in discovery order
Environments == SeqUpTo(SampleEntryPoints, MaxEntryPoints)

\* __new__ without its lock
LockIgnored(t) == TRUE

\* Lock.acquire() returns only when no thread holds the lock
LockAcquirable(t) == lock = 0

\* a thread calls CustomSchemesRegistry()
Call(t) ==
    /\ pc[t] = "idle"
    /\ calls < MaxCalls
    /\ calls' = calls + 1
    /\ pc' = [pc EXCEPT ![t] = "with_lock"]
    /\ UNCHANGED <<detvars, urlvars, callvars, entry_points, lock, _instance, objects, self, todo, ret, loads, failure>>

\* with cls._lock: (enter)
Acquire(t) ==
    /\ pc[t] = "with_lock"
    /\ LockAcquirable(t)
    /\ lock' = t
    /\ pc' = [pc EXCEPT ![t] = "check"]
    /\ UNCHANGED <<detvars, urlvars, callvars, entry_points, _instance, objects, self, todo, ret, calls, loads, failure>>

\* if cls._instance is None:
Check(t) ==
    /\ pc[t] = "check"
    /\ pc' = [pc EXCEPT ![t] = IF _instance = 0 THEN "create" ELSE "unlock"]
    /\ UNCHANGED <<detvars, urlvars, callvars, entry_points, lock, _instance, objects, self, todo, ret, calls, loads, failure>>

\* cls._instance = super().__new__(cls)
Create(t) ==
    /\ pc[t] = "create"
    /\ objects' = Append(objects, NoDict)
    /\ _instance' = Len(objects) + 1
    /\ pc' = [pc EXCEPT ![t] = "init_registry"]
    /\ UNCHANGED <<detvars, urlvars, callvars, entry_points, lock, self, todo, ret, calls, loads, failure>>

\* cls._instance._custom_schemes_registry = {}
InitRegistry(t) ==
    /\ pc[t] = "init_registry"
    /\ objects' = [objects EXCEPT ![_instance] = << >>]
    /\ pc' = [pc EXCEPT ![t] = "call_load"]
    /\ UNCHANGED <<detvars, urlvars, callvars, entry_points, lock, _instance, self, todo, ret, calls, loads, failure>>

\* cls._instance._load_entry_points("idutils.custom_schemes"), up to the loop's
\* first iteration: the set of registrations is built and its order fixed
LoadStart(t) ==
    /\ pc[t] = "call_load"
    /\ self' = [self EXCEPT ![t] = _instance]
    /\ loads' = loads + 1
    /\ \E order \in IterationOrders(entry_points) :
          todo' = [todo EXCEPT ![t] = order]
    /\ pc' = [pc EXCEPT ![t] = "loading"]
    /\ UNCHANGED <<detvars, urlvars, callvars, entry_points, lock, _instance, objects, ret, calls, failure>>

\* one iteration of the loop, with the lock taken by acquire() and given back
\* by a release() after the load instead of a with block: an assertion that
\* fails leaves the lock held
LoadStepLockKept(t) ==
    /\ pc[t] = "loading"
    /\ todo[t] # << >>
    /\ LET one == LoadOne(objects[self[t]], Head(todo[t]))
       IN  IF one.err = ""
           THEN /\ objects' = [objects EXCEPT ![self[t]] = one.reg]
                /\ todo' = [todo EXCEPT ![t] = Tail(@)]
                /\ UNCHANGED <<lock, pc, ret, failure>>
           ELSE /\ failure' = one.err
                /\ ret' = [ret EXCEPT ![t] = RAISED]
                /\ pc' = [pc EXCEPT ![t] = "idle"]
                /\ todo' = [todo EXCEPT ![t] = << >>]
                /\ UNCHANGED <<lock, objects>>
    /\ UNCHANGED <<detvars, urlvars, callvars, entry_points, _instance, self, calls, loads>>

\* one iteration of the loop; an assertion that fails leaves the with block,
\* which releases the lock, and the call raises
LoadStep(t) ==
    /\ pc[t] = "loading"
    /\ todo[t] # << >>
    /\ LET one == LoadOne(objects[self[t]], Head(todo[t]))
       IN  IF one.err = ""
           THEN /\ objects' = [objects EXCEPT ![self[t]] = one.reg]
                /\ todo' = [todo EXCEPT ![t] = Tail(@)]
                /\ UNCHANGED <<lock, pc, ret, failure>>
           ELSE /\ failure' = one.err
                /\ lock' = 0
                /\ ret' = [ret EXCEPT ![t] = RAISED]
                /\ pc' = [pc EXCEPT ![t] = "idle"]
                /\ todo' = [todo EXCEPT ![t] = << >>]
                /\ UNCHANGED objects
    /\ UNCHANGED <<detvars, urlvars, callvars, entry_points, _instance, self, calls, loads>>

\* the loop ends, _load_entry_points returns
LoadDone(t) ==
    /\ pc[t] = "loading"
    /\ todo[t] = << >>
    /\ pc' = [pc EXCEPT ![t] = "unlock"]
    /\ UNCHANGED <<detvars, urlvars, callvars, entry_points, lock, _instance, objects, self, todo, ret, calls, loads, failure>>

\* with cls._lock: (exit)
Release(t) ==
    /\ pc[t] = "unlock"
    /\ lock' = 0
    /\ pc' = [pc EXCEPT ![t] = "return"]
    /\ UNCHANGED <<detvars, urlvars, callvars, entry_points, _instance, objects, self, todo, ret, calls, loads, failure>>

\* return cls._instance
Return(t) ==
    /\ pc[t] = "return"
    /\ ret' = [ret EXCEPT ![t] = _instance]
    /\ pc' = [pc EXCEPT ![t] = "idle"]
    /\ UNCHANGED <<detvars, urlvars, callvars, entry_points, lock, _instance, objects, self, todo, calls, loads, failure>>

NoResult == [phase |-> "none"]

NoCall == [op |-> "none"]

NoValue == [text |-> << >>, re |-> {}]

\* the modules holding the tables are not part of the run
NoTables == [pid_schemes |-> << >>, scheme_filter |-> << >>]

NoHistory == << >>

Init ==
    /\ entry_points \in Environments
    /\ lock = 0
    /\ _instance = 0
    /\ objects = << >>
    /\ pc = [t \in Threads |-> "idle"]
    /\ self = [t \in Threads |-> 0]
    /\ todo = [t \in Threads |-> << >>]
    /\ ret = [t \in Threads |-> 0]
    /\ calls = 0
    /\ loads = 0
    /\ failure = ""
    /\ dval = NoValue
    /\ dreg = << >>
    /\ dout = NoResult
    /\ arg_val = NoValue
    /\ arg_scheme = ""
    /\ arg_url_scheme = << >>
    /\ out = NoCall
    /\ tables = NoTables
    /\ seen = NoHistory

Next ==
    \/ \E t \in Threads : Call(t)
    \/ \E t \in Threads : Acquire(t)
    \/ \E t \in Threads : Check(t)
    \/ \E t \in Threads : Create(t)
    \/ \E t \in Threads : InitRegistry(t)
    \/ \E t \in Threads : LoadStart(t)
    \/ \E t \in Threads : LoadStep(t)
    \/ \E t \in Threads : LoadDone(t)
    \/ \E t \in Threads : Release(t)
    \/ \E t \in Threads : Return(t)

Spec == Init /\ [][Next]_vars

\* environments whose load succeeds, and ones whose load raises at the first
\* or at a later registration
FairEnvironments ==
    { << >>, << ep_custom_scheme, ep_custom_scheme2 >>, << ep_not_callable >>,
      << ep_custom_scheme, ep_doi >>, << ep_custom_scheme, ep_custom_scheme_again >>,
      << ep_unknown_key, ep_custom_scheme >> }

InitFair == Init /\ entry_points \in FairEnvironments

\* the steps of a call that thread t has begun
Step(t) ==
    \/ Acquire(t)
    \/ Check(t)
    \/ Create(t)
    \/ InitRegistry(t)
    \/ LoadStart(t)
    \/ LoadStep(t)
    \/ LoadDone(t)
    \/ Release(t)
    \/ Return(t)

\* every thread that can take a step of its call is scheduled in the end
\* (a thread blocked in acquire() can take none); the factories return
\* (LoadStep is one step); whether a thread calls is its own choice
SpecFair == InitFair /\ [][Next]_vars /\ \A t \in Threads : WF_vars(Step(t))

----------------------------------------------------------------------------
(* Claims about the registry, checked under Spec                            *)

\* the instances that have their _custom_schemes_registry attribute
Built(i) == i \in 1..Len(objects) /\ objects[i] # NoDict

\* no thread is between the creation of the instance and the end of the load
NobodyConstructing == \A t \in Threads : pc[t] \notin {"init_registry", "call_load", "loading"}

\* the place of a name's first registration in discovery order
FirstDiscovered(name) ==
    CHOOSE k \in 1..Len(entry_points) :
        /\ entry_points[k].name = name
        /\ \A j \in 1..(k - 1) : entry_points[j].name # name

\* C1: whatever the interleaving of the calling threads, at most one instance
\* is ever created and _load_entry_points is entered at most once; as soon as
\* one call has passed the check both have happened exactly once; and every
\* call that returns, a first call or a later one, returns that one instance.
C1_SingleInstance ==
    /\ Len(objects) <= 1
    /\ loads <= 1
    /\ \A t \in Threads :
          (pc[t] \in {"unlock", "return"} \/ ret[t] # 0) =>
              /\ Len(objects) = 1
              /\ loads = 1
              /\ _instance = 1
    /\ \A t \in Threads : ret[t] # 0 => ret[t] \in {1, RAISED}
    /\ Cardinality({t \in Threads : ret[t] = RAISED}) <= 1

\* every thread has made all its calls, the later ones too, and each got the
\* one instance
C1_Witness ==
    /\ \A t \in Threads : pc[t] = "idle" /\ ret[t] = 1
    /\ calls = MaxCalls
    /\ Len(objects) = 1
    /\ loads = 1

\* C2 (as claimed): whenever a caller has received the instance, every
\* discovered registration's name is stored in it and nobody is still loading.
C2_ReturnedMeansFullyBuilt ==
    \A t \in Threads :
        ret[t] > 0 =>
            /\ NobodyConstructing
            /\ \A k \in 1..Len(entry_points) :
                  entry_points[k].name \in RegNames(objects[ret[t]])

\* C3 (as claimed): once the construction of the registry has failed, no call
\* returns an instance.
C3_NoInstanceAfterFailure ==
    failure # "" => \A t \in Threads : ret[t] <= 0

\* C4: no registry ever holds a built-in scheme name, and no name twice; and
\* when a registration under a built-in name was discovered, the load has
\* raised once it is over (the assertion on the name, when no other
\* registration is faulty).
C4_NoBuiltinNameStored ==
    /\ \A i \in 1..Len(objects) :
          Built(i) =>
              /\ RegNames(objects[i]) \cap existing_id_names = {}
              /\ \A a, b \in 1..Len(objects[i]) :
                    objects[i][a].name = objects[i][b].name => a = b
    /\ (/\ loads > 0
        /\ NobodyConstructing
        /\ \E k \in 1..Len(entry_points) : entry_points[k].name \in existing_id_names)
       => /\ failure # ""
          /\ (\A k \in 1..Len(entry_points) :
                 GoodEntryPoint(entry_points[k]) \/ entry_points[k].name \in existing_id_names)
             => failure = "AssertionError: Scheme already exists!"

\* the load raised on a registration named doi after it had stored another
C4_Witness ==
    /\ failure = "AssertionError: Scheme already exists!"
    /\ Built(1)
    /\ Len(objects[1]) = 1
    /\ ep_doi \in Range(entry_points)

\* C5: every stored configuration has exactly the keys validator, normalizer,
\* filter and url_generator; a key its factory supplied has the supplied
\* value, an omitted key its default; and no configuration of a factory that
\* supplied another key is stored.
C5_StoredConfigComplete ==
    \A i \in 1..Len(objects) :
        Built(i) =>
            \A a \in 1..Len(objects[i]) :
                LET item == objects[i][a]
                    given == item.ep.config
                IN  /\ DOMAIN item.config = {"validator", "normalizer", "filter", "url_generator"}
                    /\ DOMAIN given \subseteq {"validator", "normalizer", "filter", "url_generator"}
                    /\ \A k \in DOMAIN given : item.config[k] = given[k]
                    /\ "validator" \notin DOMAIN given => item.config.validator = "lambda_true"
                    /\ "normalizer" \notin DOMAIN given => item.config.normalizer = "lambda_identity"
                    /\ "filter" \notin DOMAIN given => item.config.filter = << >>
                    /\ "url_generator" \notin DOMAIN given => item.config.url_generator = "lambda_none"

\* a factory that supplied two keys was stored with the two defaults added,
\* and the load then raised on the factory with the unknown key
C5_Witness ==
    /\ Built(1)
    /\ Len(objects[1]) = 1
    /\ objects[1][1].ep = ep_custom_scheme2
    /\ objects[1][1].config.validator = "is_custom_scheme2_valid"
    /\ objects[1][1].config.filter = << >>
    /\ ep_unknown_key \in Range(entry_points)
    /\ failure = "AssertionError"

\* C6 (as claimed): the configuration stored under a name is the one of the
\* first registration of that name in discovery order.
C6_FirstDiscoveredWins ==
    \A i \in 1..Len(objects) :
        Built(i) =>
            \A a \in 1..Len(objects[i]) :
                objects[i][a].config =
                    MergeConfig(entry_points[FirstDiscovered(objects[i][a].name)].config)

\* C8 (as claimed): for every key, pick_scheme_key(key) lists the custom
\* schemes in the order in which the discovery mechanism yielded them.
C8_PickOrderIsDiscoveryOrder ==
    \A i \in 1..Len(objects) :
        Built(i) =>
            \A key \in ConfigKeys :
                LET picked == pick_scheme_key(objects[i], key)
                IN  \A a, b \in 1..Len(picked) :
                        a < b => FirstDiscovered(picked[a][1]) < FirstDiscovered(picked[b][1])

----------------------------------------------------------------------------
(* Strings are sequences of characters.                                     *)

UPPERCASE ==
    << "A", "B", "C", "D", "E", "F", "G", "H", "I", "J", "K", "L", "M",
       "N", "O", "P", "Q", "R", "S", "T", "U", "V", "W", "X", "Y", "Z" >>

LOWERCASE ==
    << "a", "b", "c", "d", "e", "f", "g", "h", "i", "j", "k", "l", "m",
       "n", "o", "p", "q", "r", "s", "t", "u", "v", "w", "x", "y", "z" >>

\* str.lower, on the characters the model's strings are made of
lower(s) ==
    [i \in 1..Len(s) |->
        IF \E k \in 1..Len(UPPERCASE) : UPPERCASE[k] = s[i]
        THEN LOWERCASE[CHOOSE k \in 1..Len(UPPERCASE) : UPPERCASE[k] = s[i]]
        ELSE s[i]]

\* "gnd:"
STR_gnd == << "g", "n", "d", ":" >>

\* "http://hdl.handle.net/"
STR_hdl_http == << "h", "t", "t", "p", ":", "/", "/", "h", "d", "l", ".", "h", "a", "n", "d", "l", "e", ".", "n", "e", "t", "/" >>

\* "https://hdl.handle.net/"
STR_hdl_https == << "h", "t", "t", "p", "s", ":", "/", "/", "h", "d", "l", ".", "h", "a", "n", "d", "l", "e", ".", "n", "e", "t", "/" >>

----------------------------------------------------------------------------
(* idutils/utils.py *)

\* "http://viaf.org/viaf/"
viaf_url_1 == << "h", "t", "t", "p", ":", "/", "/", "v", "i", "a", "f", ".", "o", "r", "g", "/", "v", "i", "a", "f", "/" >>

\* "https://viaf.org/viaf/"
viaf_url_2 == << "h", "t", "t", "p", "s", ":", "/", "/", "v", "i", "a", "f", ".", "o", "r", "g", "/", "v", "i", "a", "f", "/" >>

\* "http://www.viaf.org/viaf/"
viaf_url_3 == << "h", "t", "t", "p", ":", "/", "/", "w", "w", "w", ".", "v", "i", "a", "f", ".", "o", "r", "g", "/", "v", "i", "a", "f", "/" >>

\* "https://www.viaf.org/viaf/"
viaf_url_4 == << "h", "t", "t", "p", "s", ":", "/", "/", "w", "w", "w", ".", "v", "i", "a", "f", ".", "o", "r", "g", "/", "v", "i", "a", "f", "/" >>

\* the list with the bare host added, a prefix of viaf_url_1
viaf_urls_overlapping ==
    << << "h", "t", "t", "p", ":", "/", "/", "v", "i", "a", "f", ".", "o", "r", "g", "/" >>,
       viaf_url_1, viaf_url_2, viaf_url_3, viaf_url_4 >>

viaf_urls == << viaf_url_1, viaf_url_2, viaf_url_3, viaf_url_4 >>

----------------------------------------------------------------------------
(* The values detection is tried on.  A value is its text together with the *)
(* verdicts of the pattern library on it (field re): the regular            *)
(* expressions of idutils/utils.py, urlparse and isbnlib are not modelled,  *)
(* so which patterns accept the text is an input, any combination of at     *)
(* most MaxMatched of them.                                                 *)

\* ""
TXT_empty == << >>

\* "gnd:4079154-3"
TXT_gnd_lower == << "g", "n", "d", ":", "4", "0", "7", "9", "1", "5", "4", "-", "3" >>

\* "GND:4079154-3"
TXT_gnd_upper == << "G", "N", "D", ":", "4", "0", "7", "9", "1", "5", "4", "-", "3" >>

\* "Gnd:4079154-3"
TXT_gnd_mixed == << "G", "n", "d", ":", "4", "0", "7", "9", "1", "5", "4", "-", "3" >>

\* "4079154-3"
TXT_gnd_bare == << "4", "0", "7", "9", "1", "5", "4", "-", "3" >>

\* "http://viaf.org/viaf/12"
TXT_viaf_1 == << "h", "t", "t", "p", ":", "/", "/", "v", "i", "a", "f", ".", "o", "r", "g", "/", "v", "i", "a", "f", "/", "1", "2" >>

\* "https://viaf.org/viaf/12"
TXT_viaf_2 == << "h", "t", "t", "p", "s", ":", "/", "/", "v", "i", "a", "f", ".", "o", "r", "g", "/", "v", "i", "a", "f", "/", "1", "2" >>

\* "http://www.viaf.org/viaf/12"
TXT_viaf_3 == << "h", "t", "t", "p", ":", "/", "/", "w", "w", "w", ".", "v", "i", "a", "f", ".", "o", "r", "g", "/", "v", "i", "a", "f", "/", "1", "2" >>

\* "https://www.viaf.org/viaf/12"
TXT_viaf_4 == << "h", "t", "t", "p", "s", ":", "/", "/", "w", "w", "w", ".", "v", "i", "a", "f", ".", "o", "r", "g", "/", "v", "i", "a", "f", "/", "1", "2" >>

\* "viaf:12"
TXT_viaf_label == << "v", "i", "a", "f", ":", "1", "2" >>

\* "http://viaf.org/12"
TXT_viaf_other_host == << "h", "t", "t", "p", ":", "/", "/", "v", "i", "a", "f", ".", "o", "r", "g", "/", "1", "2" >>

\* "http://hdl.handle.net/1/2"
TXT_hdl_http == << "h", "t", "t", "p", ":", "/", "/", "h", "d", "l", ".", "h", "a", "n", "d", "l", "e", ".", "n", "e", "t", "/", "1", "/", "2" >>

\* "https://hdl.handle.net/1/2"
TXT_hdl_https == << "h", "t", "t", "p", "s", ":", "/", "/", "h", "d", "l", ".", "h", "a", "n", "d", "l", "e", ".", "n", "e", "t", "/", "1", "/", "2" >>

\* "http://a.b/c"
TXT_url == << "h", "t", "t", "p", ":", "/", "/", "a", ".", "b", "/", "c" >>

\* "custom_scheme_valid"
TXT_custom_scheme_valid == << "c", "u", "s", "t", "o", "m", "_", "s", "c", "h", "e", "m", "e", "_", "v", "a", "l", "i", "d" >>

\* "custom_scheme2_valid"
TXT_custom_scheme2_valid == << "c", "u", "s", "t", "o", "m", "_", "s", "c", "h", "e", "m", "e", "2", "_", "v", "a", "l", "i", "d" >>

\* "http://[a": a URL whose authority opens a bracket it does not close
TXT_bracket == << "h", "t", "t", "p", ":", "/", "/", "[", "a" >>

Texts ==
    { TXT_empty,
      TXT_bracket,
      TXT_gnd_lower,
      TXT_gnd_upper,
      TXT_gnd_mixed,
      TXT_viaf_1,
      TXT_viaf_2,
      TXT_viaf_3,
      TXT_viaf_4,
      TXT_viaf_other_host,
      TXT_hdl_http,
      TXT_hdl_https,
      TXT_custom_scheme_valid }

\* the schemes the disambiguation steps name, and two they do not
SampleSchemes ==
    { "doi", "ark", "handle", "lsid", "urn", "arxiv", "isbn", "issn", "orcid",
      "isni", "ean13", "ean8", "istc", "gnd", "pmid", "url", "swh", "viaf" }

MatchSets == {S \in SUBSET SampleSchemes : Cardinality(S) <= MaxMatched}

Values == {[text |-> t, re |-> S] : t \in Texts, S \in MatchSets}

----------------------------------------------------------------------------
(* idutils/validators.py: the predicates, as far as their code goes beyond  *)
(* one pattern match                                                        *)

\* urllib.parse.scheme_chars
scheme_chars ==
    Range(LOWERCASE) \cup Range(UPPERCASE)
        \cup {"0", "1", "2", "3", "4", "5", "6", "7", "8", "9", "+", "-", "."}

\* urlparse(val): what is left of the text once a leading "<scheme>:" is cut off
urlparse_rest(s) ==
    LET colons == {i \in 1..Len(s) : s[i] = ":"}
        i == CHOOSE i \in colons : \A j \in colons : i <= j
    IN  IF /\ colons # {}
           /\ s[1] \in Range(LOWERCASE) \cup Range(UPPERCASE)
           /\ \A k \in 1..(i - 1) : s[k] \in scheme_chars
        THEN SubSeq(s, i + 1, Len(s))
        ELSE s

\* urlparse(val).netloc: the text between a leading "//" and the first of "/", "?", "#"
urlparse_netloc(s) ==
    LET r == urlparse_rest(s)
        delims == {i \in 3..Len(r) : r[i] \in {"/", "?", "#"}}
    IN  IF Len(r) >= 2 /\ r[1] = "/" /\ r[2] = "/"
        THEN SubSeq(r, 3, IF delims = {} THEN Len(r)
                          ELSE (CHOOSE i \in delims : \A j \in delims : i <= j) - 1)
        ELSE << >>

\* urlparse(val) raises ValueError("Invalid IPv6 URL") when the authority has
\* one of "[" and "]" without the other
urlparse_raises(s) ==
    ("[" \in Range(urlparse_netloc(s))) # ("]" \in Range(urlparse_netloc(s)))

\* the predicates that begin with res = urlparse(val): is_ark, is_purl, is_url,
\* is_urn, and is_lsid through is_urn
UrlparseSchemes == {"ark", "purl", "lsid", "urn", "url"}

\* validators.is_<scheme>(val) raises
test_raises(scheme, val) == scheme \in UrlparseSchemes /\ urlparse_raises(val.text)

is_swh(val) == "swh" \in val.re

\* handle_regexp.match(val) and not is_swh(val)
is_handle(val) == "handle" \in val.re /\ ~is_swh(val)

is_urn(val) == "urn" \in val.re

\* is_urn(val) and lsid_regexp.match(val)
is_lsid(val) == is_urn(val) /\ "lsid" \in val.re

\* a known VIAF host URL in front, or viaf_regexp matching the whole value
is_viaf(val) ==
    \/ \E i \in 1..Len(viaf_urls) : startswith(val.text, viaf_urls[i])
    \/ "viaf" \in val.re

\* validators.is_<scheme>(val)
test(scheme, val) ==
    CASE scheme = "handle" -> is_handle(val)
      [] scheme = "lsid"   -> is_lsid(val)
      [] scheme = "urn"    -> is_urn(val)
      [] scheme = "swh"    -> is_swh(val)
      [] scheme = "viaf"   -> is_viaf(val)
      [] OTHER             -> scheme \in val.re

\* the validators custom schemes come with
ApplyValidator(validator, val) ==
    CASE validator = "lambda_true"             -> TRUE
      [] validator = "is_custom_scheme_valid"  -> val.text = TXT_custom_scheme_valid
      [] validator = "is_custom_scheme2_valid" -> val.text = TXT_custom_scheme2_valid
      [] OTHER                                 -> FALSE

----------------------------------------------------------------------------
(* idutils/detectors.py *)

\* The names of IDUTILS_PID_SCHEMES of idutils/detectors.py, in declared order
IDUTILS_PID_SCHEMES ==
    << "doi", "ark", "handle", "purl", "lsid", "urn", "ads", "arxiv", "ascl",
       "hal", "pmcid", "isbn", "issn", "orcid", "isni", "ean13", "ean8", "istc",
       "gnd", "ror", "pmid", "url", "sra", "bioproject", "biosample", "ensembl",
       "uniprot", "refseq", "genome", "geo", "arrayexpress_array",
       "arrayexpress_experiment", "swh", "viaf" >>

\* the table with ean8 and viaf missing from the url rule
IDUTILS_SCHEME_FILTER_short_url_rule ==
    << << "url", << "isbn", "istc", "urn", "lsid", "issn" >> >>,
       << "ean8", << "gnd", "pmid", "viaf" >> >>,
       << "ean13", << "gnd", "pmid" >> >>,
       << "isbn", << "gnd", "pmid" >> >>,
       << "orcid", << "gnd", "pmid" >> >>,
       << "isni", << "gnd", "pmid" >> >>,
       << "issn", << "gnd", "viaf" >> >>,
       << "pmid", << "viaf" >> >> >>

IDUTILS_SCHEME_FILTER ==
    << << "url", << "isbn", "istc", "urn", "lsid", "issn", "ean8", "viaf" >> >>,
       << "ean8", << "gnd", "pmid", "viaf" >> >>,
       << "ean13", << "gnd", "pmid" >> >>,
       << "isbn", << "gnd", "pmid" >> >>,
       << "orcid", << "gnd", "pmid" >> >>,
       << "isni", << "gnd", "pmid" >> >>,
       << "issn", << "gnd", "viaf" >> >>,
       << "pmid", << "viaf" >> >> >>

\* the (name, test) pairs of IDUTILS_PID_SCHEMES; "builtin" stands for
\* validators.is_<name>
BuiltinValidators == [i \in 1..Len(IDUTILS_PID_SCHEMES) |-> << IDUTILS_PID_SCHEMES[i], "builtin" >>]

\* test(val) for a pair (scheme, test) of scheme_validators
Accepts(pair, val) ==
    IF pair[2] = "builtin" THEN test(pair[1], val) ELSE ApplyValidator(pair[2], val)

Names(pairs) == [i \in 1..Len(pairs) |-> pairs[i][1]]

\* IDUTILS_PID_SCHEMES + current_idutils.pick_scheme_key("validator")
scheme_validators(reg) == BuiltinValidators \o pick_scheme_key(reg, "validator")

\* the custom rules in front of the built-in ones
scheme_filter_custom_first(reg) == pick_scheme_key(reg, "filter") \o IDUTILS_SCHEME_FILTER

\* IDUTILS_SCHEME_FILTER + current_idutils.pick_scheme_key("filter")
scheme_filter(reg) == IDUTILS_SCHEME_FILTER \o pick_scheme_key(reg, "filter")

\* the loop over the custom schemes first, then the built-in ones
ValidateCustomFirst(reg, val) ==
    Names(SelectSeq(pick_scheme_key(reg, "validator") \o BuiltinValidators,
                    LAMBDA pair : Accepts(pair, val)))

\* the loop appending every scheme whose test accepts val
Validate(reg, val) ==
    Names(SelectSeq(scheme_validators(reg), LAMBDA pair : Accepts(pair, val)))

\* the loop is left by the first built-in test that raises: the names
\* appended before it, and the error
ValidateRaised(reg, val) ==
    LET pairs == scheme_validators(reg)
        raising == {i \in 1..Len(pairs) : pairs[i][2] = "builtin" /\ test_raises(pairs[i][1], val)}
    IN  IF raising = {}
        THEN [err |-> "", schemes |-> Validate(reg, val)]
        ELSE [err |-> "ValueError",
              schemes |-> Names(SelectSeq(SubSeq(pairs, 1, (CHOOSE i \in raising : \A j \in raising : i <= j) - 1),
                                          LAMBDA pair : Accepts(pair, val)))]

\* list.remove(x): the first x goes; ValueError when there is none
remove(st, x) ==
    IF x \notin Range(st.schemes)
    THEN [st EXCEPT !.err = "ValueError"]
    ELSE LET i == CHOOSE i \in 1..Len(st.schemes) :
                     /\ st.schemes[i] = x
                     /\ \A j \in 1..(i - 1) : st.schemes[j] # x
         IN  [st EXCEPT !.schemes = SubSeq(st.schemes, 1, i - 1)
                                      \o SubSeq(st.schemes, i + 1, Len(st.schemes)),
                        !.removals = @ + 1]

\* the step with val.startswith("gnd:"), without lower()
GndIsbnStepCaseSensitive(st, val) ==
    IF /\ "gnd" \in Range(st.schemes)
       /\ "isbn" \in Range(st.schemes)
       /\ startswith(val.text, STR_gnd)
    THEN remove(st, "isbn")
    ELSE st

\* if "gnd" in schemes and "isbn" in schemes: if val.lower().startswith("gnd:"): ...
GndIsbnStep(st, val) ==
    IF /\ "gnd" \in Range(st.schemes)
       /\ "isbn" \in Range(st.schemes)
       /\ startswith(lower(val.text), STR_gnd)
    THEN remove(st, "isbn")
    ELSE st

\* for viaf_url in validators.viaf_urls: if val.startswith(viaf_url): schemes.remove(name)
RECURSIVE ViafLoop(_, _, _, _, _)
ViafLoop(st, val, name, urls, i) ==
    IF i > Len(urls) \/ st.err # ""
    THEN st
    ELSE ViafLoop(IF startswith(val.text, urls[i]) THEN remove(st, name) ELSE st,
                  val, name, urls, i + 1)

\* if "viaf" in schemes and name in schemes: the loop
ViafStep(st, val, name) ==
    IF st.err = "" /\ "viaf" \in Range(st.schemes) /\ name \in Range(st.schemes)
    THEN ViafLoop(st, val, name, viaf_urls, 1)
    ELSE st

\* the loop with every trigger looked up in the list as it was before the loop
RECURSIVE FilterLoopTriggersFromStart(_, _, _)
FilterLoopTriggersFromStart(st, rules, i) ==
    IF i > Len(rules) \/ st.err # ""
    THEN st
    ELSE FilterLoopTriggersFromStart(
            IF rules[i][1] \in (IF i = 1 THEN Range(st.schemes) ELSE Range(st.before_rule[1]))
            THEN [st EXCEPT !.schemes = FilterOut(st.schemes, Range(rules[i][2])),
                            !.fired = @ \cup {i},
                            !.before_rule = Append(@, st.schemes)]
            ELSE [st EXCEPT !.before_rule = Append(@, st.schemes)],
            rules, i + 1)

\* the loop left (break) after the first rule that runs
RECURSIVE FilterLoopStopsAfterFirst(_, _, _)
FilterLoopStopsAfterFirst(st, rules, i) ==
    IF i > Len(rules) \/ st.err # "" \/ st.fired # {}
    THEN st
    ELSE FilterLoopStopsAfterFirst(
            IF rules[i][1] \in Range(st.schemes)
            THEN [st EXCEPT !.schemes = FilterOut(st.schemes, Range(rules[i][2])),
                            !.fired = @ \cup {i},
                            !.before_rule = Append(@, st.schemes)]
            ELSE [st EXCEPT !.before_rule = Append(@, st.schemes)],
            rules, i + 1)

\* for first, remove_schemes in scheme_filter: if first in schemes: schemes = filter(...)
\* (before_rule[i] records the list the i-th rule found, fired the rules that ran)
RECURSIVE FilterLoop(_, _, _)
FilterLoop(st, rules, i) ==
    IF i > Len(rules) \/ st.err # ""
    THEN st
    ELSE FilterLoop(
            IF rules[i][1] \in Range(st.schemes)
            THEN [st EXCEPT !.schemes = FilterOut(st.schemes, Range(rules[i][2])),
                            !.fired = @ \cup {i},
                            !.before_rule = Append(@, st.schemes)]
            ELSE [st EXCEPT !.before_rule = Append(@, st.schemes)],
            rules, i + 1)

\* the if / elif with the test on "https://hdl.handle.net/" left out
HandleStepHttpOnly(st, val) ==
    IF st.err # ""
    THEN st
    ELSE IF /\ "handle" \in Range(st.schemes)
            /\ "url" \in Range(st.schemes)
            /\ ~startswith(val.text, STR_hdl_http)
    THEN [st EXCEPT !.schemes = FilterOut(st.schemes, {"handle"})]
    ELSE IF /\ "handle" \in Range(st.schemes)
            /\ ("ark" \in Range(st.schemes) \/ "arxiv" \in Range(st.schemes))
    THEN [st EXCEPT !.schemes = FilterOut(st.schemes, {"handle"})]
    ELSE st

\* the if without its elif
HandleStepNoElif(st, val) ==
    IF st.err # ""
    THEN st
    ELSE IF /\ "handle" \in Range(st.schemes)
            /\ "url" \in Range(st.schemes)
            /\ ~startswith(val.text, STR_hdl_http)
            /\ ~startswith(val.text, STR_hdl_https)
    THEN [st EXCEPT !.schemes = FilterOut(st.schemes, {"handle"})]
    ELSE st

\* the if / elif on handle that ends detect_identifier_schemes
HandleStep(st, val) ==
    IF st.err # ""
    THEN st
    ELSE IF /\ "handle" \in Range(st.schemes)
            /\ "url" \in Range(st.schemes)
            /\ ~startswith(val.text, STR_hdl_http)
            /\ ~startswith(val.text, STR_hdl_https)
    THEN [st EXCEPT !.schemes = FilterOut(st.schemes, {"handle"})]
    ELSE IF /\ "handle" \in Range(st.schemes)
            /\ ("ark" \in Range(st.schemes) \/ "arxiv" \in Range(st.schemes))
    THEN [st EXCEPT !.schemes = FilterOut(st.schemes, {"handle"})]
    ELSE st

\* detect_identifier_schemes(val) with the registry reg: the list after each
\* step, the rules that fired, and what the call returns or raises
detect_identifier_schemes(reg, val) ==
    LET v == ValidateRaised(reg, val)
        s0 == [schemes |-> v.schemes, err |-> v.err, removals |-> 0, fired |-> {},
               before_rule |-> << >>]
        s1 == IF s0.err # "" THEN s0 ELSE GndIsbnStep(s0, val)
        s2 == ViafStep([s1 EXCEPT !.removals = 0], val, "url")
        s3 == ViafStep([s2 EXCEPT !.removals = 0], val, "handle")
        s4 == FilterLoop(s3, scheme_filter(reg), 1)
        s5 == HandleStep(s4, val)
    IN  [ phase             |-> IF s5.err = "" THEN "returned" ELSE "raised",
          err               |-> s5.err,
          candidates        |-> s0.schemes,
          after_gnd         |-> s1.schemes,
          after_viaf_url    |-> s2.schemes,
          url_removals      |-> s2.removals,
          after_viaf        |-> s3.schemes,
          handle_removals   |-> s3.removals,
          after_filter      |-> s4.schemes,
          fired             |-> s4.fired,
          before_rule       |-> s4.before_rule,
          result            |-> s5.schemes ]

\* idutils/proxies.py: current_idutils stands for the registry instance
current_idutils == dreg

\* the registries detection runs with
DetectEnvironments ==
    { << >>, << ep_custom_scheme, ep_custom_scheme2 >>, << ep_custom_scheme_again >>,
      << ep_custom_scheme, ep_custom_filter >> }

DetectRegistries ==
    {LoadAll(<< >>, order).reg : order \in UNION {IterationOrders(env) : env \in DetectEnvironments}}

Detect ==
    /\ dout = NoResult
    /\ dout' = detect_identifier_schemes(current_idutils, dval)
    /\ UNCHANGED <<dval, dreg>>
    /\ UNCHANGED <<regvars, urlvars, callvars>>

InitDetect ==
    /\ entry_points = << >>
    /\ lock = 0
    /\ _instance = 0
    /\ objects = << >>
    /\ pc = [t \in Threads |-> "idle"]
    /\ self = [t \in Threads |-> 0]
    /\ todo = [t \in Threads |-> << >>]
    /\ ret = [t \in Threads |-> 0]
    /\ calls = 0
    /\ loads = 0
    /\ failure = ""
    /\ dval \in Values
    /\ dreg \in DetectRegistries
    /\ dout = NoResult
    /\ arg_val = NoValue
    /\ arg_scheme = ""
    /\ arg_url_scheme = << >>
    /\ out = NoCall
    /\ tables = NoTables
    /\ seen = NoHistory

NextDetect == Detect

SpecDetect == InitDetect /\ [][NextDetect]_vars

----------------------------------------------------------------------------
(* Claims about the detector, checked under SpecDetect                      *)

\* detect_identifier_schemes was called
Called == dout # NoResult

\* detect_identifier_schemes was called and returned a list
Detected == Called /\ dout.phase = "returned"

NoDuplicates(seq) == \A a, b \in 1..Len(seq) : seq[a] = seq[b] => a = b

\* a is b with some elements taken out, the others in b's order
IsSubsequence(a, b) == a = SelectSeq(b, LAMBDA x : x \in Range(a))

BuiltinNames == Range(IDUTILS_PID_SCHEMES)

\* the effective validator list's names: the built-in schemes in declared
\* order, then the registry's names in the order of its items
EffectiveOrder == IDUTILS_PID_SCHEMES \o [i \in 1..Len(dreg) |-> dreg[i].name]

Position(name) == CHOOSE k \in 1..Len(EffectiveOrder) : EffectiveOrder[k] = name

\* the validator of scheme name accepts the value
Accepted(name) ==
    IF name \in BuiltinNames
    THEN test(name, dval)
    ELSE /\ name \in RegNames(dreg)
         /\ ApplyValidator(dreg[RegIndex(dreg, name)].config.validator, dval)

\* the sample texts that start with "gnd:" in some letter case
GndPrefixed == {TXT_gnd_lower, TXT_gnd_upper, TXT_gnd_mixed}

\* the sample texts that start with one of the four VIAF host URLs
ViafPrefixed == {TXT_viaf_1, TXT_viaf_2, TXT_viaf_3, TXT_viaf_4}

\* C7: the list returned has no duplicates, holds only schemes whose validator
\* accepted the value, in the order of the effective validator list; and the
\* list after each step is the list before it with names taken out.
C7_ResultOrderedAccepted ==
    Detected =>
        /\ NoDuplicates(dout.result)
        /\ \A name \in Range(dout.result) : Accepted(name)
        /\ \A a, b \in 1..Len(dout.result) :
              a < b => Position(dout.result[a]) < Position(dout.result[b])
        /\ \A name \in BuiltinNames \cup RegNames(dreg) :
              Accepted(name) <=> name \in Range(dout.candidates)
        /\ IsSubsequence(dout.candidates, EffectiveOrder)
        /\ IsSubsequence(dout.after_gnd, dout.candidates)
        /\ IsSubsequence(dout.after_viaf_url, dout.after_gnd)
        /\ IsSubsequence(dout.after_viaf, dout.after_viaf_url)
        /\ IsSubsequence(dout.after_filter, dout.after_viaf)
        /\ IsSubsequence(dout.result, dout.after_filter)

\* a built-in and a custom scheme are returned, in that order, after a step
\* took a name out
C7_Witness ==
    /\ Detected
    /\ dout.candidates = << "isni", "pmid", "custom_scheme" >>
    /\ dout.result = << "isni", "custom_scheme" >>

\* C9: when gnd and isbn both accept the value and it starts with "gnd:" in
\* any letter case, the step takes out isbn and nothing else, the isbn rule of
\* the filter table does not fire, and the result has no isbn; when the value
\* does not start with "gnd:", the step leaves the list as it is.
C9_GndPrefixDropsIsbn ==
    (Detected /\ Accepted("gnd") /\ Accepted("isbn")) =>
        IF dval.text \in GndPrefixed
        THEN /\ dout.after_gnd = FilterOut(dout.candidates, {"isbn"})
             /\ "gnd" \in Range(dout.after_gnd)
             /\ \A i \in dout.fired : scheme_filter(dreg)[i][1] # "isbn"
             /\ "isbn" \notin Range(dout.result)
        ELSE dout.after_gnd = dout.candidates

\* "GND:4079154-3" accepted by gnd and isbn: gnd alone is returned
C9_Witness ==
    /\ Detected
    /\ dval.text = TXT_gnd_upper
    /\ dout.candidates = << "isbn", "gnd" >>
    /\ dout.result = << "gnd" >>

\* C10: when the value starts with a VIAF host URL, detection does not raise,
\* viaf is a candidate, url and handle are each taken out by exactly one
\* remove if they were candidates, nothing else is, the url rule does not
\* fire, and the result has neither url nor handle; when the value starts with
\* no VIAF host URL, the step leaves the list as it is.
C10_ViafUrlDropsUrlAndHandle ==
    Called =>
        /\ dout.err # "ValueError" \/ test_raises("url", dval)
        /\ IF dval.text \in ViafPrefixed
           THEN /\ dout.phase = "returned"
                /\ "viaf" \in Range(dout.candidates)
                /\ dout.after_viaf = FilterOut(dout.after_gnd, {"url", "handle"})
                /\ dout.url_removals = (IF "url" \in Range(dout.candidates) THEN 1 ELSE 0)
                /\ dout.handle_removals = (IF "handle" \in Range(dout.candidates) THEN 1 ELSE 0)
                /\ \A i \in dout.fired : scheme_filter(dreg)[i][1] # "url"
                /\ "url" \notin Range(dout.result)
                /\ "handle" \notin Range(dout.result)
           ELSE /\ dout.after_viaf = dout.after_gnd
                /\ dout.url_removals = 0
                /\ dout.handle_removals = 0

\* "https://viaf.org/viaf/12" accepted by handle, url and viaf: viaf alone is
\* returned
C10_Witness ==
    /\ Detected
    /\ dval.text = TXT_viaf_2
    /\ dout.candidates = << "handle", "url", "viaf" >>
    /\ dout.url_removals = 1
    /\ dout.handle_removals = 1
    /\ dout.result = << "viaf" >>

\* the sample texts that start with a Handle resolver URL
HdlPrefixed == {TXT_hdl_http, TXT_hdl_https}

\* the names the url rule of the filter table removes
UrlRuleTargets == {"isbn", "istc", "urn", "lsid", "issn", "ean8", "viaf"}

\* C11 (as claimed): whenever the url validator accepts the value, the result
\* holds none of isbn, istc, urn, lsid, issn, ean8 and viaf.
C11_UrlAcceptedDropsTargets ==
    (Detected /\ Accepted("url")) => Range(dout.result) \cap UrlRuleTargets = {}

\* C11 (amended): when the url validator accepts a value that does not start
\* with a VIAF host URL, url is in the list the filter table finds, the url
\* rule fires and the result holds none of isbn, istc, urn, lsid, issn, ean8
\* and viaf, whichever of their validators accepted; when the value starts with
\* a VIAF host URL, url is taken out before the table runs, the url rule does
\* not fire, and the seven names are not removed on url's account.
C11_UrlInListDropsTargets ==
    (Detected /\ Accepted("url")) =>
        IF dval.text \notin ViafPrefixed
        THEN /\ "url" \in Range(dout.after_viaf)
             /\ 1 \in dout.fired
             /\ Range(dout.result) \cap UrlRuleTargets = {}
        ELSE /\ "url" \notin Range(dout.after_viaf)
             /\ 1 \notin dout.fired
             /\ dout.before_rule[2] = dout.after_viaf

\* url, ean8 and issn accept "http://hdl.handle.net/1/2": url alone is returned
C11_Witness ==
    /\ Detected
    /\ dval.text = TXT_hdl_http
    /\ dout.candidates = << "issn", "ean8", "url" >>
    /\ dout.result = << "url" >>

\* C12: the rules run in table order, each against the list the rules before
\* it left: a rule whose trigger is in that list fires and takes out exactly
\* its targets, a rule whose trigger is not in it leaves the list alone.  When
\* url, isbn and pmid accept a value that is no VIAF URL (and no other scheme
\* whose rule names pmid accepts it), the url rule takes out isbn, the isbn
\* rule does not fire, and pmid is in the result.  A value labelled "gnd:"
\* that gnd accepts has no "//" after the label, so is_url (scheme and netloc)
\* does not accept it: the step at detectors.py:96-100 has not taken isbn out.
C12_RulesRunInOrderOnCurrentList ==
    Detected =>
        LET rules == scheme_filter(dreg)
            n == Len(rules)
        IN  /\ Len(dout.before_rule) = n
            /\ dout.before_rule[1] = dout.after_viaf
            /\ \A i \in 1..n :
                  LET before == dout.before_rule[i]
                      after == IF i < n THEN dout.before_rule[i + 1] ELSE dout.after_filter
                  IN  IF rules[i][1] \in Range(before)
                      THEN i \in dout.fired /\ after = FilterOut(before, Range(rules[i][2]))
                      ELSE i \notin dout.fired /\ after = before
            /\ rules[1][1] = "url"
            /\ rules[4][1] = "isbn"
            /\ (/\ Accepted("url") /\ Accepted("isbn") /\ Accepted("pmid")
                /\ dval.text \notin ViafPrefixed
                /\ ~(Accepted("gnd") /\ dval.text \in GndPrefixed)
                /\ ~Accepted("ean13") /\ ~Accepted("orcid") /\ ~Accepted("isni")
                /\ \A k \in 1..Len(dreg) : "pmid" \notin Range(dreg[k].config.filter))
               => /\ 1 \in dout.fired
                  /\ "isbn" \in Range(dout.before_rule[1])
                  /\ "isbn" \notin Range(dout.before_rule[2])
                  /\ 4 \notin dout.fired
                  /\ "pmid" \in Range(dout.result)

\* url, isbn and pmid accept "http://hdl.handle.net/1/2": the isbn rule finds no
\* isbn, pmid and url are returned
C12_Witness ==
    /\ Detected
    /\ dval.text = TXT_hdl_http
    /\ dout.candidates = << "isbn", "pmid", "url" >>
    /\ dout.fired = {1, 8}
    /\ dout.result = << "pmid", "url" >>

\* C13: when handle and url are both in the list the filter table leaves and
\* the value starts with neither Handle resolver URL, handle alone is taken
\* out; when it starts with one of them and neither ark nor arxiv is in the
\* list, the list is returned as it is, handle and url in it; so handle and url
\* are returned together only for a value with a Handle resolver prefix.
C13_HandleWithUrlOnlyForResolverPrefix ==
    Detected =>
        /\ ({"handle", "url"} \subseteq Range(dout.after_filter) /\ dval.text \notin HdlPrefixed)
              => /\ dout.result = FilterOut(dout.after_filter, {"handle"})
                 /\ "url" \in Range(dout.result)
        /\ (/\ {"handle", "url"} \subseteq Range(dout.after_filter)
            /\ dval.text \in HdlPrefixed
            /\ "ark" \notin Range(dout.after_filter)
            /\ "arxiv" \notin Range(dout.after_filter))
              => dout.result = dout.after_filter
        /\ {"handle", "url"} \subseteq Range(dout.result) => dval.text \in HdlPrefixed

\* "https://hdl.handle.net/1/2" accepted by doi, handle and url: all three are
\* returned
C13_Witness ==
    /\ Detected
    /\ dval.text = TXT_hdl_https
    /\ dout.candidates = << "doi", "handle", "url" >>
    /\ dout.result = << "doi", "handle", "url" >>

\* C14: when handle is in the list the filter table leaves together with ark
\* or arxiv, and either handle and url are not both in it or the value has a
\* Handle resolver prefix, handle alone is taken out; and no result holds
\* handle together with ark or with arxiv.
C14_NoHandleWithArkOrArxiv ==
    Detected =>
        /\ (/\ "handle" \in Range(dout.after_filter)
            /\ ("ark" \in Range(dout.after_filter) \/ "arxiv" \in Range(dout.after_filter))
            /\ ("url" \notin Range(dout.after_filter) \/ dval.text \in HdlPrefixed))
              => /\ dout.result = FilterOut(dout.after_filter, {"handle"})
                 /\ Range(dout.result) \cap {"ark", "arxiv"}
                       = Range(dout.after_filter) \cap {"ark", "arxiv"}
        /\ "handle" \in Range(dout.result) =>
              ("ark" \notin Range(dout.result) /\ "arxiv" \notin Range(dout.result))

\* "http://hdl.handle.net/1/2" accepted by ark, handle and url: the resolver
\* prefix keeps the first test from applying, ark takes handle out
C14_Witness ==
    /\ Detected
    /\ dval.text = TXT_hdl_http
    /\ dout.candidates = << "ark", "handle", "url" >>
    /\ dout.result = << "ark", "url" >>

NumBuiltinRules == Len(IDUTILS_SCHEME_FILTER)

\* C15: the rules of the custom schemes stand after the built-in rules, one
\* per registered scheme (its name, its filter list); the first of them finds
\* the list all built-in rules left; a custom scheme in the list when its rule
\* runs has every name of its filter list, built-in or custom, absent from the
\* result; and the targets of every built-in rule that fired stay absent from
\* the result, also when a custom rule took that rule's trigger out afterwards.
C15_CustomRulesRunLast ==
    Detected =>
        LET rules == scheme_filter(dreg)
        IN  /\ Len(rules) = NumBuiltinRules + Len(dreg)
            /\ \A i \in 1..NumBuiltinRules : rules[i] = IDUTILS_SCHEME_FILTER[i]
            /\ \A k \in 1..Len(dreg) :
                  /\ rules[NumBuiltinRules + k] = << dreg[k].name, dreg[k].config.filter >>
                  /\ dreg[k].name \in Range(dout.before_rule[NumBuiltinRules + k])
                        => Range(dreg[k].config.filter) \cap Range(dout.result) = {}
            /\ \A i \in 1..NumBuiltinRules :
                  /\ i \in dout.fired <=> IDUTILS_SCHEME_FILTER[i][1] \in Range(dout.before_rule[i])
                  /\ i \in dout.fired
                        => Range(IDUTILS_SCHEME_FILTER[i][2]) \cap Range(dout.result) = {}

\* orcid and pmid accept the text custom_scheme accepts: the orcid rule takes
\* out pmid, then the rule of custom_scheme takes out orcid; pmid stays out
C15_Witness ==
    /\ Detected
    /\ dval.text = TXT_custom_scheme_valid
    /\ dout.candidates = << "orcid", "pmid", "custom_scheme" >>
    /\ dout.fired = {5, 9}
    /\ dout.result = << "custom_scheme" >>

----------------------------------------------------------------------------
(* Python strings, as far as idutils/normalizers.py uses them               *)

\* str.upper, on the characters the model's strings are made of
upper(s) ==
    [i \in 1..Len(s) |->
        IF \E k \in 1..Len(LOWERCASE) : LOWERCASE[k] = s[i]
        THEN UPPERCASE[CHOOSE k \in 1..Len(LOWERCASE) : LOWERCASE[k] = s[i]]
        ELSE s[i]]

\* s[n:]
Drop(s, n) == SubSeq(s, n + 1, Len(s))

\* s[a:b] for 0 <= a <= b, clamped to the length of s as Python does
Slice(s, a, b) ==
    SubSeq(s, a + 1, IF b < Len(s) THEN b ELSE Len(s))

\* s.replace(c, "") for a single character c
RemoveChar(s, c) == SelectSeq(s, LAMBDA x : x # c)

\* s.replace(sub, "") for a non-empty sub: every occurrence, left to right
RECURSIVE RemoveAll(_, _)
RemoveAll(s, sub) ==
    IF s = << >>
    THEN << >>
    ELSE IF startswith(s, sub)
    THEN RemoveAll(Drop(s, Len(sub)), sub)
    ELSE << Head(s) >> \o RemoveAll(Tail(s), sub)

Whitespace == {" ", "\t", "\n", "\r"}

\* s.lstrip()
RECURSIVE lstrip(_)
lstrip(s) == IF s # << >> /\ Head(s) \in Whitespace THEN lstrip(Tail(s)) ELSE s

\* s.rstrip()
RECURSIVE rstrip(_)
rstrip(s) ==
    IF s # << >> /\ s[Len(s)] \in Whitespace THEN rstrip(SubSeq(s, 1, Len(s) - 1)) ELSE s

\* s.strip()
strip(s) == rstrip(lstrip(s))

\* the index of the first c in s, 0 when there is none
Find(s, c) ==
    IF \E i \in 1..Len(s) : s[i] = c
    THEN CHOOSE i \in 1..Len(s) : s[i] = c /\ \A j \in 1..(i - 1) : s[j] # c
    ELSE 0

\* "None"
STR_None == << "N", "o", "n", "e" >>

\* "http"
STR_http == << "h", "t", "t", "p" >>

\* "https"
STR_https == << "h", "t", "t", "p", "s" >>

\* "doi:"
STR_doi == << "d", "o", "i", ":" >>

\* "hdl:"
STR_hdl == << "h", "d", "l", ":" >>

\* "urn:"
STR_urn == << "u", "r", "n", ":" >>

\* "urn:nbn:"
STR_urn_nbn == << "u", "r", "n", ":", "n", "b", "n", ":" >>

\* "viaf:"
STR_viaf == << "v", "i", "a", "f", ":" >>

\* "hal:"
STR_hal == << "h", "a", "l", ":" >>

\* "arxiv:"
STR_arxiv_lower == << "a", "r", "x", "i", "v", ":" >>

\* "arXiv:"
STR_arXiv == << "a", "r", "X", "i", "v", ":" >>

\* "://custom/scheme/"
STR_custom_scheme_path == << ":", "/", "/", "c", "u", "s", "t", "o", "m", "/", "s", "c", "h", "e", "m", "e", "/" >>

\* "://custom/scheme2/"
STR_custom_scheme2_path == << ":", "/", "/", "c", "u", "s", "t", "o", "m", "/", "s", "c", "h", "e", "m", "e", "2", "/" >>

\* "https://nbn-resolving.org/"
urn_resolver_url == << "h", "t", "t", "p", "s", ":", "/", "/", "n", "b", "n", "-", "r", "e", "s", "o", "l", "v", "i", "n", "g", ".", "o", "r", "g", "/" >>

orcid_urls == << << "h", "t", "t", "p", ":", "/", "/", "o", "r", "c", "i", "d", ".", "o", "r", "g", "/" >>,
                << "h", "t", "t", "p", "s", ":", "/", "/", "o", "r", "c", "i", "d", ".", "o", "r", "g", "/" >> >>

----------------------------------------------------------------------------
(* idutils/normalizers.py.  A Python value is None or a string; a call      *)
(* returns a value or raises, and the model also records which normalizers  *)
(* and URL generators it invoked (field called).                            *)

None == [none |-> TRUE, text |-> << >>]

Str(s) == [none |-> FALSE, text |-> s]

\* the value val without the pattern verdicts the model attaches to it
Plain(val) == [none |-> val.none, text |-> val.text]

Returned(v, called) == [phase |-> "returned", err |-> "", value |-> v, called |-> called]

Raised(e, called) == [phase |-> "raised", err |-> e, value |-> None, called |-> called]

\* the text of val after the optional wrapper a pattern starts with: the first
\* wrapper of the list that val starts with is cut off, and the white space
\* after it when the pattern has \s* there
StripWrapper(s, wrappers, ignorecase, spaces) ==
    LET t == IF ignorecase THEN lower(s) ELSE s
        hits == {i \in 1..Len(wrappers) : startswith(t, wrappers[i])}
    IN  IF hits = {}
        THEN s
        ELSE LET i == CHOOSE i \in hits : \A j \in hits : i <= j
                 rest == Drop(s, Len(wrappers[i]))
             IN  IF wrappers[i] \in spaces THEN lstrip(rest) ELSE rest

\* doi_regexp: (doi:\s*|(?:https?://)?(?:dx\.)?doi\.org/)?, letter case ignored
doi_wrappers ==
    << << "d", "o", "i", ":" >>,
       << "h", "t", "t", "p", ":", "/", "/", "d", "x", ".", "d", "o", "i", ".", "o", "r", "g", "/" >>,
       << "h", "t", "t", "p", "s", ":", "/", "/", "d", "x", ".", "d", "o", "i", ".", "o", "r", "g", "/" >>,
       << "h", "t", "t", "p", ":", "/", "/", "d", "o", "i", ".", "o", "r", "g", "/" >>,
       << "h", "t", "t", "p", "s", ":", "/", "/", "d", "o", "i", ".", "o", "r", "g", "/" >>,
       << "d", "x", ".", "d", "o", "i", ".", "o", "r", "g", "/" >>,
       << "d", "o", "i", ".", "o", "r", "g", "/" >> >>

\* handle_regexp: (hdl:\s*|(?:https?://)?hdl\.handle\.net/)?, letter case ignored
handle_wrappers ==
    << << "h", "d", "l", ":" >>,
       << "h", "t", "t", "p", ":", "/", "/", "h", "d", "l", ".", "h", "a", "n", "d", "l", "e", ".", "n", "e", "t", "/" >>,
       << "h", "t", "t", "p", "s", ":", "/", "/", "h", "d", "l", ".", "h", "a", "n", "d", "l", "e", ".", "n", "e", "t", "/" >>,
       << "h", "d", "l", ".", "h", "a", "n", "d", "l", "e", ".", "n", "e", "t", "/" >> >>

\* ads_regexp: (ads:|ADS:)?
ads_wrappers ==
    << << "a", "d", "s", ":" >>,
       << "A", "D", "S", ":" >> >>

\* pmid_regexp: (pmid:|https?://pubmed.ncbi.nlm.nih.gov/)?, letter case ignored
pmid_wrappers ==
    << << "p", "m", "i", "d", ":" >>,
       << "h", "t", "t", "p", ":", "/", "/", "p", "u", "b", "m", "e", "d", ".", "n", "c", "b", "i", ".", "n", "l", "m", ".", "n", "i", "h", ".", "g", "o", "v", "/" >>,
       << "h", "t", "t", "p", "s", ":", "/", "/", "p", "u", "b", "m", "e", "d", ".", "n", "c", "b", "i", ".", "n", "l", "m", ".", "n", "i", "h", ".", "g", "o", "v", "/" >> >>

\* gnd_regexp: (gnd:|GND:|https?://d-nb\.info/gnd/|d-nb\.info/gnd/)?
gnd_wrappers ==
    << << "g", "n", "d", ":" >>,
       << "G", "N", "D", ":" >>,
       << "h", "t", "t", "p", ":", "/", "/", "d", "-", "n", "b", ".", "i", "n", "f", "o", "/", "g", "n", "d", "/" >>,
       << "h", "t", "t", "p", "s", ":", "/", "/", "d", "-", "n", "b", ".", "i", "n", "f", "o", "/", "g", "n", "d", "/" >>,
       << "d", "-", "n", "b", ".", "i", "n", "f", "o", "/", "g", "n", "d", "/" >> >>

\* ror_regexp: (?:https?://)?(?:ror\.org/)?, letter case ignored
ror_wrappers ==
    << << "h", "t", "t", "p", ":", "/", "/", "r", "o", "r", ".", "o", "r", "g", "/" >>,
       << "h", "t", "t", "p", "s", ":", "/", "/", "r", "o", "r", ".", "o", "r", "g", "/" >>,
       << "r", "o", "r", ".", "o", "r", "g", "/" >>,
       << "h", "t", "t", "p", ":", "/", "/" >>,
       << "h", "t", "t", "p", "s", ":", "/", "/" >> >>

\* m = <scheme>_regexp.match(val); m.group(n): the text after the wrapper when
\* the pattern matches val, AttributeError (m is None) when it does not
group(val, scheme, wrappers, ignorecase, spaces) ==
    IF scheme \notin val.re
    THEN Raised("AttributeError", << "normalize_" \o scheme >>)
    ELSE Returned(Str(StripWrapper(val.text, wrappers, ignorecase, spaces)),
                  << "normalize_" \o scheme >>)

normalize_doi(val) == group(val, "doi", doi_wrappers, TRUE, {STR_doi})

\* normalize_handle matching with doi_regexp instead of handle_regexp
normalize_handle_doi_pattern(val) == group(val, "doi", doi_wrappers, TRUE, {STR_doi})

normalize_handle(val) == group(val, "handle", handle_wrappers, TRUE, {STR_hdl})

\* (unicodedata.normalize("NFKD", val) leaves the model's characters as they are)
normalize_ads(val) == group(val, "ads", ads_wrappers, FALSE, {})

\* for orcid_url in orcid_urls: if val.startswith(orcid_url): cut it off; break
normalize_orcid(val) ==
    LET v1 == IF startswith(val.text, orcid_urls[1]) THEN Drop(val.text, Len(orcid_urls[1]))
              ELSE IF startswith(val.text, orcid_urls[2]) THEN Drop(val.text, Len(orcid_urls[2]))
              ELSE val.text
        v2 == RemoveChar(RemoveChar(v1, "-"), " ")
    IN  Returned(Str(Slice(v2, 0, 4) \o << "-" >> \o Slice(v2, 4, 8) \o << "-" >>
                     \o Slice(v2, 8, 12) \o << "-" >> \o Slice(v2, 12, 16)),
                 << "normalize_orcid" >>)

Digits == {"0", "1", "2", "3", "4", "5", "6", "7", "8", "9"}

\* the characters s[a..b] exist and are all in the set C
AllIn(s, a, b, C) == b <= Len(s) /\ \A i \in a..b : s[i] \in C

\* gnd_regexp has no $: group 2 is what the first of its four alternatives that
\* matches at the start of t takes, the rest of t is ignored.  The length of
\* that match, 0 when no alternative matches:
\*   1[012]?\d{7}[0-9X] | [47]\d{6}-\d | [1-9]\d{0,7}-[0-9X] | 3\d{7}[0-9X]
gnd_group_len(t) ==
    LET dash == Find(t, "-")
    IN  IF /\ AllIn(t, 1, 1, {"1"}) /\ AllIn(t, 2, 2, {"0", "1", "2"})
           /\ AllIn(t, 3, 9, Digits) /\ AllIn(t, 10, 10, Digits \cup {"X"})
        THEN 10
        ELSE IF /\ AllIn(t, 1, 1, {"1"}) /\ AllIn(t, 2, 8, Digits)
                /\ AllIn(t, 9, 9, Digits \cup {"X"})
        THEN 9
        ELSE IF /\ AllIn(t, 1, 1, {"4", "7"}) /\ AllIn(t, 2, 7, Digits)
                /\ AllIn(t, 8, 8, {"-"}) /\ AllIn(t, 9, 9, Digits)
        THEN 9
        ELSE IF /\ AllIn(t, 1, 1, Digits \ {"0"}) /\ dash \in 2..9
                /\ AllIn(t, 2, dash - 1, Digits) /\ AllIn(t, dash + 1, dash + 1, Digits \cup {"X"})
        THEN dash + 1
        ELSE IF /\ AllIn(t, 1, 1, {"3"}) /\ AllIn(t, 2, 8, Digits)
                /\ AllIn(t, 9, 9, Digits \cup {"X"})
        THEN 9
        ELSE 0

\* f"gnd:{m.group(2)}"
normalize_gnd(val) ==
    LET m == group(val, "gnd", gnd_wrappers, FALSE, {})
    IN  IF m.phase = "raised" THEN m
        ELSE Returned(Str(STR_gnd \o SubSeq(m.value.text, 1, gnd_group_len(m.value.text))),
                      << "normalize_gnd" >>)

normalize_urn(val) ==
    LET v1 == IF startswith(val.text, urn_resolver_url)
              THEN Drop(val.text, Len(urn_resolver_url)) ELSE val.text
        v2 == IF startswith(lower(v1), STR_urn) THEN Drop(v1, Len(STR_urn)) ELSE v1
    IN  Returned(Str(STR_urn \o v2), << "normalize_urn" >>)

\* m.group(2): the digits, without the optional "/" that ends the pattern
normalize_pmid(val) ==
    LET m == group(val, "pmid", pmid_wrappers, TRUE, {})
    IN  IF m.phase = "raised" THEN m
        ELSE LET t == m.value.text
             IN  Returned(Str(IF t # << >> /\ t[Len(t)] = "/" THEN SubSeq(t, 1, Len(t) - 1) ELSE t),
                          << "normalize_pmid" >>)

\* The two rewrites of normalize_arxiv depend on which arXiv pattern matches
\* the prefixed value; the verdicts are part of val.re:
\*   arxiv_pre_2007_subclass   arxiv_pre_2007_regexp matches, with group 3 (".GT")
\*   arxiv_post_2007           arxiv_post_2007_regexp matches
\*   arxiv_post_2007_class     arxiv_post_2007_with_class_regexp matches
normalize_arxiv(val) ==
    LET v1 == IF ~startswith(lower(val.text), STR_arxiv_lower)
              THEN STR_arXiv \o val.text
              ELSE IF SubSeq(val.text, 1, 6) # STR_arXiv
              THEN STR_arXiv \o Drop(val.text, 6)
              ELSE val.text
        slash == Find(v1, "/")
        \* "".join(m.group(1, 2, 4, 5)) (+ m.group(6)): v1 without the subclass
        v2 == IF "arxiv_pre_2007_subclass" \in val.re
              THEN SubSeq(v1, 1, slash - 4) \o Drop(v1, slash - 1)
              ELSE v1
        \* "arXiv:" + ".".join(m.group(2, 3)) (+ m.group(4))
        v3 == IF "arxiv_post_2007" \in val.re
              THEN STR_arXiv \o Drop(v2, Len(STR_arXiv))
              ELSE IF "arxiv_post_2007_class" \in val.re
              THEN STR_arXiv \o Drop(v2, Find(v2, "/"))
              ELSE v2
    IN  Returned(Str(v3), << "normalize_arxiv" >>)

\* val.replace(" ", "").lower().replace("hal:", "")
normalize_hal(val) ==
    Returned(Str(RemoveAll(lower(RemoveChar(val.text, " ")), STR_hal)), << "normalize_hal" >>)

\* val.replace(" ", "").replace("-", "").strip().upper(); "{0}-{1}".format(val[:4], val[4:])
normalize_issn(val) ==
    LET v == upper(strip(RemoveChar(RemoveChar(val.text, " "), "-")))
    IN  Returned(Str(Slice(v, 0, 4) \o << "-" >> \o Drop(v, IF Len(v) < 4 THEN Len(v) ELSE 4)),
                 << "normalize_issn" >>)

normalize_ror(val) == group(val, "ror", ror_wrappers, TRUE, {})

\* for viaf_url in viaf_urls: if val.startswith(viaf_url): cut it off; break
normalize_viaf(val) ==
    LET hits == {i \in 1..Len(viaf_urls) : startswith(val.text, viaf_urls[i])}
        v1 == IF hits = {} THEN val.text
              ELSE Drop(val.text, Len(viaf_urls[CHOOSE i \in hits : \A j \in hits : i <= j]))
        v2 == IF startswith(lower(v1), STR_viaf) THEN Drop(v1, Len(STR_viaf)) ELSE v1
    IN  Returned(Str(STR_viaf \o v2), << "normalize_viaf" >>)

\* "0-9752298-0-X"
TXT_isbn10 == << "0", "-", "9", "7", "5", "2", "2", "9", "8", "-", "0", "-", "X" >>

\* "978-0-9752298-0-4"
TXT_isbn10_as_13 == << "9", "7", "8", "-", "0", "-", "9", "7", "5", "2", "2", "9", "8", "-", "0", "-", "4" >>

\* "9783468111242"
TXT_isbn13 == << "9", "7", "8", "3", "4", "6", "8", "1", "1", "1", "2", "4", "2" >>

\* "978-3-468-11124-2"
TXT_isbn13_masked == << "9", "7", "8", "-", "3", "-", "4", "6", "8", "-", "1", "1", "1", "2", "4", "-", "2" >>

\* "978-3-905673-82-1"
TXT_isbn13_hyphens == << "9", "7", "8", "-", "3", "-", "9", "0", "5", "6", "7", "3", "-", "8", "2", "-", "1" >>

\* isbnlib is not part of the program: its results are given for the ISBNs of
\* tests/test_idutils.py (is_isbn10, then mask(canonical(to_isbn13(val))))
isbnlib_masked ==
    << << TXT_isbn10, TXT_isbn10_as_13 >>,
       << TXT_isbn13, TXT_isbn13_masked >>,
       << TXT_isbn13_hyphens, TXT_isbn13_hyphens >> >>

normalize_isbn(val) ==
    IF \E i \in 1..Len(isbnlib_masked) : isbnlib_masked[i][1] = val.text
    THEN Returned(Str(isbnlib_masked[CHOOSE i \in 1..Len(isbnlib_masked) :
                                         isbnlib_masked[i][1] = val.text][2]),
                  << "normalize_isbn" >>)
    ELSE Raised("NotValidISBNError", << "normalize_isbn" >>)

\* the normalizers custom schemes come with
ApplyNormalizer(normalizer, val) ==
    CASE normalizer = "lambda_identity" -> Str(val.text)
      [] normalizer = "mock_identity"   -> Str(val.text)
      [] normalizer = "str_upper"       -> Str(upper(val.text))
      [] OTHER                          -> None

\* idutils/proxies.py: custom_schemes_registry() returns the registry instance
custom_schemes_registry == dreg

\* the loop comparing no names: every custom scheme counts as the one asked for
MatchingAny(picked, scheme) == 1..Len(picked)

\* the indices of the pairs of pick_scheme_key(key) whose name is scheme
\* (for custom_scheme, f in ...: if scheme == custom_scheme)
Matching(picked, scheme) == {i \in 1..Len(picked) : picked[i][1] = scheme}

\* the test taken as false for every value
not_val_never(val) == FALSE

\* if not val:
not_val(val) == val.none \/ val.text = << >>

\* normalize_pid(val, scheme) with the registry reg
normalize_pid(reg, val, scheme) ==
    LET picked == pick_scheme_key(reg, "normalizer")
        hits == Matching(picked, scheme)
    IN  IF not_val(val)
        THEN Returned(Plain(val), << >>)
        ELSE CASE scheme = "doi"    -> normalize_doi(val)
               [] scheme = "handle" -> normalize_handle(val)
               [] scheme = "ads"    -> normalize_ads(val)
               [] scheme = "pmid"   -> normalize_pmid(val)
               [] scheme = "arxiv"  -> normalize_arxiv(val)
               [] scheme = "orcid"  -> normalize_orcid(val)
               [] scheme = "gnd"    -> normalize_gnd(val)
               [] scheme = "isbn"   -> normalize_isbn(val)
               [] scheme = "issn"   -> normalize_issn(val)
               [] scheme = "hal"    -> normalize_hal(val)
               [] scheme = "ror"    -> normalize_ror(val)
               [] scheme = "urn"    -> normalize_urn(val)
               [] scheme = "viaf"   -> normalize_viaf(val)
               [] OTHER ->
                    IF hits # {}
                    THEN LET i == CHOOSE i \in hits : \A j \in hits : i <= j
                         IN  Returned(ApplyNormalizer(picked[i][2], val), << picked[i][1] >>)
                    ELSE Returned(Plain(val), << >>)

\* the keys of IDUTILS_LANDING_URLS
LandingSchemes ==
    { "doi", "handle", "arxiv", "ascl", "orcid", "pmid", "pmcid", "ads", "gnd", "urn", "sra", "bioproject", "biosample", "ensembl", "uniprot", "refseq", "genome", "geo", "arrayexpress_array", "arrayexpress_experiment", "hal", "swh", "ror", "viaf" }

\* IDUTILS_LANDING_URLS: for each scheme the text of its template between
\* {scheme} and {pid}, and the text after {pid}
IDUTILS_LANDING_URLS ==
    [n \in LandingSchemes |->
       CASE n = "doi" -> << << ":", "/", "/", "d", "o", "i", ".", "o", "r", "g", "/" >>,
              << >> >>
         [] n = "handle" -> << << ":", "/", "/", "h", "d", "l", ".", "h", "a", "n", "d", "l", "e", ".", "n", "e", "t", "/" >>,
              << >> >>
         [] n = "arxiv" -> << << ":", "/", "/", "a", "r", "x", "i", "v", ".", "o", "r", "g", "/", "a", "b", "s", "/" >>,
              << >> >>
         [] n = "ascl" -> << << ":", "/", "/", "a", "s", "c", "l", ".", "n", "e", "t", "/" >>,
              << >> >>
         [] n = "orcid" -> << << ":", "/", "/", "o", "r", "c", "i", "d", ".", "o", "r", "g", "/" >>,
              << >> >>
         [] n = "pmid" -> << << ":", "/", "/", "p", "u", "b", "m", "e", "d", ".", "n", "c", "b", "i", ".", "n", "l", "m", ".", "n", "i", "h", ".", "g", "o", "v", "/" >>,
              << "/" >> >>
         [] n = "pmcid" -> << << ":", "/", "/", "p", "m", "c", ".", "n", "c", "b", "i", ".", "n", "l", "m", ".", "n", "i", "h", ".", "g", "o", "v", "/", "a", "r", "t", "i", "c", "l", "e", "s", "/" >>,
              << "/" >> >>
         [] n = "ads" -> << << ":", "/", "/", "u", "i", ".", "a", "d", "s", "a", "b", "s", ".", "h", "a", "r", "v", "a", "r", "d", ".", "e", "d", "u", "/", "#", "a", "b", "s", "/" >>,
              << >> >>
         [] n = "gnd" -> << << ":", "/", "/", "d", "-", "n", "b", ".", "i", "n", "f", "o", "/", "g", "n", "d", "/" >>,
              << >> >>
         [] n = "urn" -> << << ":", "/", "/", "n", "b", "n", "-", "r", "e", "s", "o", "l", "v", "i", "n", "g", ".", "o", "r", "g", "/" >>,
              << >> >>
         [] n = "sra" -> << << ":", "/", "/", "w", "w", "w", ".", "e", "b", "i", ".", "a", "c", ".", "u", "k", "/", "e", "n", "a", "/", "d", "a", "t", "a", "/", "v", "i", "e", "w", "/" >>,
              << >> >>
         [] n = "bioproject" -> << << ":", "/", "/", "w", "w", "w", ".", "e", "b", "i", ".", "a", "c", ".", "u", "k", "/", "e", "n", "a", "/", "d", "a", "t", "a", "/", "v", "i", "e", "w", "/" >>,
              << >> >>
         [] n = "biosample" -> << << ":", "/", "/", "w", "w", "w", ".", "e", "b", "i", ".", "a", "c", ".", "u", "k", "/", "e", "n", "a", "/", "d", "a", "t", "a", "/", "v", "i", "e", "w", "/" >>,
              << >> >>
         [] n = "ensembl" -> << << ":", "/", "/", "w", "w", "w", ".", "e", "n", "s", "e", "m", "b", "l", ".", "o", "r", "g", "/", "i", "d", "/" >>,
              << >> >>
         [] n = "uniprot" -> << << ":", "/", "/", "p", "u", "r", "l", ".", "u", "n", "i", "p", "r", "o", "t", ".", "o", "r", "g", "/", "u", "n", "i", "p", "r", "o", "t", "/" >>,
              << >> >>
         [] n = "refseq" -> << << ":", "/", "/", "w", "w", "w", ".", "n", "c", "b", "i", ".", "n", "l", "m", ".", "n", "i", "h", ".", "g", "o", "v", "/", "e", "n", "t", "r", "e", "z", "/", "v", "i", "e", "w", "e", "r", ".", "f", "c", "g", "i", "?", "v", "a", "l", "=" >>,
              << >> >>
         [] n = "genome" -> << << ":", "/", "/", "w", "w", "w", ".", "n", "c", "b", "i", ".", "n", "l", "m", ".", "n", "i", "h", ".", "g", "o", "v", "/", "a", "s", "s", "e", "m", "b", "l", "y", "/" >>,
              << >> >>
         [] n = "geo" -> << << ":", "/", "/", "w", "w", "w", ".", "n", "c", "b", "i", ".", "n", "l", "m", ".", "n", "i", "h", ".", "g", "o", "v", "/", "g", "e", "o", "/", "q", "u", "e", "r", "y", "/", "a", "c", "c", ".", "c", "g", "i", "?", "a", "c", "c", "=" >>,
              << >> >>
         [] n = "arrayexpress_array" -> << << ":", "/", "/", "w", "w", "w", ".", "e", "b", "i", ".", "a", "c", ".", "u", "k", "/", "a", "r", "r", "a", "y", "e", "x", "p", "r", "e", "s", "s", "/", "a", "r", "r", "a", "y", "s", "/" >>,
              << >> >>
         [] n = "arrayexpress_experiment" -> << << ":", "/", "/", "w", "w", "w", ".", "e", "b", "i", ".", "a", "c", ".", "u", "k", "/", "a", "r", "r", "a", "y", "e", "x", "p", "r", "e", "s", "s", "/", "e", "x", "p", "e", "r", "i", "m", "e", "n", "t", "s", "/" >>,
              << >> >>
         [] n = "hal" -> << << ":", "/", "/", "h", "a", "l", ".", "a", "r", "c", "h", "i", "v", "e", "s", "-", "o", "u", "v", "e", "r", "t", "e", "s", ".", "f", "r", "/" >>,
              << >> >>
         [] n = "swh" -> << << ":", "/", "/", "a", "r", "c", "h", "i", "v", "e", ".", "s", "o", "f", "t", "w", "a", "r", "e", "h", "e", "r", "i", "t", "a", "g", "e", ".", "o", "r", "g", "/" >>,
              << >> >>
         [] n = "ror" -> << << ":", "/", "/", "r", "o", "r", ".", "o", "r", "g", "/" >>,
              << >> >>
         [] n = "viaf" -> << << ":", "/", "/", "v", "i", "a", "f", ".", "o", "r", "g", "/", "v", "i", "a", "f", "/" >>,
              << >> >> ]

\* "{pid}".format(pid=v), f"{v}": a string as it is, None as "None"
format(v) == IF v.none THEN STR_None ELSE v.text

\* the template filled with "http" whatever url_scheme is
TemplateHttpOnly(scheme, url_scheme, pid) ==
    STR_http \o IDUTILS_LANDING_URLS[scheme][1] \o format(pid) \o IDUTILS_LANDING_URLS[scheme][2]

\* landing_urls[scheme].format(scheme=url_scheme, pid=pid)
Template(scheme, url_scheme, pid) ==
    url_scheme \o IDUTILS_LANDING_URLS[scheme][1] \o format(pid) \o IDUTILS_LANDING_URLS[scheme][2]

\* val.split(":")[1] for a val with a ":" in it
SplitSecond(s) ==
    LET rest == Drop(s, Find(s, ":"))
        j == Find(rest, ":")
    IN  IF j = 0 THEN rest ELSE SubSeq(rest, 1, j - 1)

\* the url generators custom schemes come with
ApplyUrlGenerator(url_generator, url_scheme, pid) ==
    CASE url_generator = "lambda_none" -> None
      [] url_generator = "mock_url"    -> Str(url_scheme \o STR_custom_scheme_path \o format(pid))
      [] url_generator = "mock_url2"   -> Str(url_scheme \o STR_custom_scheme2_path \o format(pid))
      [] OTHER                         -> None

\* the test on the URN namespace taken as passed by every value
urn_is_nbn_always(pid) == TRUE

\* pid.lower().startswith("urn:nbn:")
urn_is_nbn(pid) == startswith(lower(pid.text), STR_urn_nbn)

\* the branch for purl and url left out
is_purl_or_url_never(scheme) == FALSE

\* scheme in ["purl", "url"]
is_purl_or_url(scheme) == scheme \in {"purl", "url"}

\* the branch of to_url for the schemes of IDUTILS_LANDING_URLS; a method
\* called on None raises AttributeError, [1] on a one-element list IndexError
to_url_landing(val, pid, scheme, url_scheme, called) ==
    CASE scheme = "gnd" ->
            IF pid.none THEN Raised("AttributeError", called)
            ELSE Returned(Str(Template(scheme, url_scheme,
                     IF startswith(pid.text, STR_gnd) THEN Str(Drop(pid.text, Len(STR_gnd))) ELSE pid)),
                     called)
      [] scheme = "urn" ->
            IF pid.none THEN Raised("AttributeError", called)
            ELSE IF ~urn_is_nbn(pid) THEN Returned(Str(<< >>), called)
            ELSE Returned(Str(Template(scheme, url_scheme, pid)), called)
      [] scheme = "ascl" ->
            IF val.none THEN Raised("AttributeError", called)
            ELSE IF Find(val.text, ":") = 0 THEN Raised("IndexError", called)
            ELSE Returned(Str(Template(scheme, url_scheme, Str(SplitSecond(val.text)))), called)
      [] scheme = "viaf" ->
            IF pid.none THEN Raised("AttributeError", called)
            ELSE IF startswith(pid.text, STR_viaf)
            THEN Returned(Str(Template(scheme, STR_https, Str(Drop(pid.text, Len(STR_viaf))))), called)
            ELSE Returned(Str(Template(scheme, url_scheme, pid)), called)
      [] OTHER ->
            Returned(Str(Template(scheme, url_scheme, pid)), called)

\* the generator handed the value to_url was called with
generator_arg_raw(val, pid) == Plain(val)

\* url_generator(url_scheme, pid): the second argument of the generator
generator_arg(val, pid) == pid

\* to_url(val, scheme, url_scheme) with the registry reg
to_url(reg, val, scheme, url_scheme) ==
    LET n == normalize_pid(reg, val, scheme)
        pid == n.value
        picked == pick_scheme_key(reg, "url_generator")
        hits == Matching(picked, scheme)
    IN  IF n.phase = "raised"
        THEN n
        ELSE IF scheme \in LandingSchemes
        THEN to_url_landing(val, pid, scheme, url_scheme, n.called)
        ELSE IF is_purl_or_url(scheme)
        THEN Returned(pid, n.called)
        ELSE IF hits # {}
        THEN LET i == CHOOSE i \in hits : \A j \in hits : i <= j
             IN  Returned(ApplyUrlGenerator(picked[i][2], url_scheme, generator_arg(val, pid)),
                          n.called \o << "url_generator of " \o picked[i][1] >>)
        ELSE Returned(Str(<< >>), n.called)

----------------------------------------------------------------------------
(* The values normalize_pid and to_url are tried on: None, and strings with *)
(* the verdicts of the patterns of idutils/utils.py on them.                *)

\* "urn:nbn:de:1"
TXT_urn_nbn == << "u", "r", "n", ":", "n", "b", "n", ":", "d", "e", ":", "1" >>

\* "URN:NBN:de:1"
TXT_urn_nbn_upper == << "U", "R", "N", ":", "N", "B", "N", ":", "d", "e", ":", "1" >>

\* "urn:isbn:1"
TXT_urn_isbn == << "u", "r", "n", ":", "i", "s", "b", "n", ":", "1" >>

\* "nbn:de:1"
TXT_nbn_bare == << "n", "b", "n", ":", "d", "e", ":", "1" >>

\* "https://nbn-resolving.org/urn:nbn:de:1"
TXT_urn_resolver == << "h", "t", "t", "p", "s", ":", "/", "/", "n", "b", "n", "-", "r", "e", "s", "o", "l", "v", "i", "n", "g", ".", "o", "r", "g", "/", "u", "r", "n", ":", "n", "b", "n", ":", "d", "e", ":", "1" >>

\* "doi: 10.1/a"
TXT_doi_label == << "d", "o", "i", ":", " ", "1", "0", ".", "1", "/", "a" >>

\* "10.1/a"
TXT_doi_bare == << "1", "0", ".", "1", "/", "a" >>

\* "https://doi.org/10.1/a"
TXT_doi_url == << "h", "t", "t", "p", "s", ":", "/", "/", "d", "o", "i", ".", "o", "r", "g", "/", "1", "0", ".", "1", "/", "a" >>

\* "HDL:1/2"
TXT_hdl_label == << "H", "D", "L", ":", "1", "/", "2" >>

\* "12345"
TXT_digits == << "1", "2", "3", "4", "5" >>

\* "https://pubmed.ncbi.nlm.nih.gov/12345/"
TXT_pmid_url == << "h", "t", "t", "p", "s", ":", "/", "/", "p", "u", "b", "m", "e", "d", ".", "n", "c", "b", "i", ".", "n", "l", "m", ".", "n", "i", "h", ".", "g", "o", "v", "/", "1", "2", "3", "4", "5", "/" >>

\* "VIAF:12"
TXT_viaf_label_upper == << "V", "I", "A", "F", ":", "1", "2" >>

\* "0000-0002-1825-0097"
TXT_orcid == << "0", "0", "0", "0", "-", "0", "0", "0", "2", "-", "1", "8", "2", "5", "-", "0", "0", "9", "7" >>

\* "http://orcid.org/0000 0002 1825 0097"
TXT_orcid_url == << "h", "t", "t", "p", ":", "/", "/", "o", "r", "c", "i", "d", ".", "o", "r", "g", "/", "0", "0", "0", "0", " ", "0", "0", "0", "2", " ", "1", "8", "2", "5", " ", "0", "0", "9", "7" >>

\* "1562 6865"
TXT_issn == << "1", "5", "6", "2", " ", "6", "8", "6", "5" >>

\* "2049-363x"
TXT_issn_x == << "2", "0", "4", "9", "-", "3", "6", "3", "x" >>

\* "HAL:inserm-13102590"
TXT_hal == << "H", "A", "L", ":", "i", "n", "s", "e", "r", "m", "-", "1", "3", "1", "0", "2", "5", "9", "0" >>

\* "math.GT/0309136v2"
TXT_arxiv_old == << "m", "a", "t", "h", ".", "G", "T", "/", "0", "3", "0", "9", "1", "3", "6", "v", "2" >>

\* "arxiv:1310.2590"
TXT_arxiv_new == << "a", "r", "x", "i", "v", ":", "1", "3", "1", "0", ".", "2", "5", "9", "0" >>

\* "hep-th/1601.07616"
TXT_arxiv_new_class == << "h", "e", "p", "-", "t", "h", "/", "1", "6", "0", "1", ".", "0", "7", "6", "1", "6" >>

\* "ascl:1908.011"
TXT_ascl == << "a", "s", "c", "l", ":", "1", "9", "0", "8", ".", "0", "1", "1" >>

\* "03yrm5c26"
TXT_ror == << "0", "3", "y", "r", "m", "5", "c", "2", "6" >>

\* "https://ror.org/03yrm5c26"
TXT_ror_url == << "h", "t", "t", "p", "s", ":", "/", "/", "r", "o", "r", ".", "o", "r", "g", "/", "0", "3", "y", "r", "m", "5", "c", "2", "6" >>

\* "ads:2011ApJS..192...18K"
TXT_ads == << "a", "d", "s", ":", "2", "0", "1", "1", "A", "p", "J", "S", ".", ".", "1", "9", "2", ".", ".", ".", "1", "8", "K" >>

Value(text, re) == [none |-> FALSE, text |-> text, re |-> re]

UrlValues ==
    { [none |-> TRUE, text |-> << >>, re |-> {}],
      Value(TXT_empty, {}),
      Value(TXT_urn_nbn, {}),
      Value(TXT_urn_nbn_upper, {}),
      Value(TXT_urn_isbn, {}),
      Value(TXT_nbn_bare, {}),
      Value(TXT_urn_resolver, {"handle"}),
      Value(TXT_doi_label, {"doi", "handle"}),
      Value(TXT_doi_bare, {"doi", "handle"}),
      Value(TXT_doi_url, {"doi", "handle"}),
      Value(TXT_url, {"handle"}),
      Value(TXT_hdl_http, {"handle"}),
      Value(TXT_hdl_label, {"handle"}),
      Value(TXT_digits, {"pmid"}),
      Value(TXT_pmid_url, {"handle", "pmid"}),
      Value(TXT_viaf_2, {"handle"}),
      Value(TXT_viaf_label, {}),
      Value(TXT_viaf_label_upper, {}),
      Value(TXT_gnd_upper, {"gnd"}),
      Value(TXT_gnd_lower, {"gnd"}),
      Value(TXT_gnd_bare, {"gnd"}),
      Value(TXT_orcid, {}),
      Value(TXT_orcid_url, {"handle"}),
      Value(TXT_issn, {}),
      Value(TXT_issn_x, {"gnd"}),
      Value(TXT_hal, {}),
      Value(TXT_arxiv_old, {"arxiv_pre_2007_subclass", "handle"}),
      Value(TXT_arxiv_new, {"arxiv_post_2007"}),
      Value(TXT_arxiv_new_class, {"arxiv_post_2007_class", "handle"}),
      Value(TXT_ascl, {}),
      Value(TXT_ror, {"ror"}),
      Value(TXT_ror_url, {"handle", "ror"}),
      Value(TXT_ads, {"ads"}),
      Value(TXT_custom_scheme_valid, {}),
      Value(TXT_isbn10, {}),
      Value(TXT_isbn13, {"pmid"}),
      Value(TXT_isbn13_hyphens, {"gnd"}) }

\* the scheme names asked for: the built-in ones, the custom ones, and one
\* that is neither
UrlSchemes ==
    Range(SCHEMES_PID_SCHEME_NAMES) \cup {"custom_scheme", "custom_scheme2", "custom_upper", "unknown"}

UrlSchemeArgs == {STR_http, STR_https}

\* the registries normalize_pid and to_url run with
UrlEnvironments ==
    { << >>, << ep_custom_scheme, ep_custom_scheme2 >>, << ep_custom_scheme_again, ep_custom_upper >>,
      << ep_custom_scheme, ep_custom_upper_url >> }

UrlRegistries ==
    {LoadAll(<< >>, order).reg : order \in UNION {IterationOrders(env) : env \in UrlEnvironments}}

NormalizePid ==
    /\ out = NoCall
    /\ out' = [op |-> "normalize_pid"] @@ normalize_pid(custom_schemes_registry, arg_val, arg_scheme)
    /\ UNCHANGED <<arg_val, arg_scheme, arg_url_scheme>>
    /\ UNCHANGED <<regvars, detvars, callvars>>

ToUrl ==
    /\ out = NoCall
    /\ out' = [op |-> "to_url"] @@ to_url(custom_schemes_registry, arg_val, arg_scheme, arg_url_scheme)
    /\ UNCHANGED <<arg_val, arg_scheme, arg_url_scheme>>
    /\ UNCHANGED <<regvars, detvars, callvars>>

InitUrl ==
    /\ entry_points = << >>
    /\ lock = 0
    /\ _instance = 0
    /\ objects = << >>
    /\ pc = [t \in Threads |-> "idle"]
    /\ self = [t \in Threads |-> 0]
    /\ todo = [t \in Threads |-> << >>]
    /\ ret = [t \in Threads |-> 0]
    /\ calls = 0
    /\ loads = 0
    /\ failure = ""
    /\ dval = NoValue
    /\ dreg \in UrlRegistries
    /\ dout = NoResult
    /\ arg_val \in UrlValues
    /\ arg_scheme \in UrlSchemes
    /\ arg_url_scheme \in UrlSchemeArgs
    /\ arg_scheme = "isbn" =>
          \/ not_val(arg_val)
          \/ \E i \in 1..Len(isbnlib_masked) : isbnlib_masked[i][1] = arg_val.text
    /\ out = NoCall
    /\ tables = NoTables
    /\ seen = NoHistory

NextUrl ==
    \/ NormalizePid
    \/ ToUrl

SpecUrl == InitUrl /\ [][NextUrl]_vars

----------------------------------------------------------------------------
(* Claims about normalize_pid and to_url, checked under SpecUrl             *)

\* the schemes normalize_pid has a branch for
BuiltinNormalized ==
    { "doi", "handle", "ads", "pmid", "arxiv", "orcid", "gnd", "isbn", "issn",
      "hal", "ror", "urn", "viaf" }

\* the call made was cmd, and val was neither None nor ""
CalledWithText(cmd) == out.op = cmd /\ ~arg_val.none /\ arg_val.text # << >>

\* C16: normalize_pid of None or of the empty string returns that value and
\* does not raise, whatever the scheme name, and invokes no normalizer.
C16_EmptyReturnedUnchanged ==
    (out.op = "normalize_pid" /\ (arg_val.none \/ arg_val.text = << >>)) =>
        /\ out.phase = "returned"
        /\ out.value.none = arg_val.none
        /\ out.value.text = arg_val.text
        /\ out.called = << >>

\* normalize_pid(None, "handle") returned None
C16_Witness ==
    /\ out.op = "normalize_pid"
    /\ arg_val.none
    /\ arg_scheme = "handle"
    /\ out.phase = "returned"
    /\ out.value.none

\* C17: for a non-empty value, normalize_pid of a scheme it has no branch for
\* returns what the custom normalizer registered under that very name returns
\* and invokes that normalizer only, or returns the value unchanged, invoking
\* nothing, when no custom scheme has that name; and for a scheme it has a
\* branch for it invokes the built-in normalizer of that scheme and no other.
C17_CustomNormalizerByName ==
    CalledWithText("normalize_pid") =>
        IF arg_scheme \in BuiltinNormalized
        THEN out.called = << "normalize_" \o arg_scheme >>
        ELSE IF arg_scheme \in RegNames(dreg)
        THEN /\ out.phase = "returned"
             /\ out.called = << arg_scheme >>
             /\ out.value = ApplyNormalizer(dreg[RegIndex(dreg, arg_scheme)].config.normalizer,
                                            arg_val)
        ELSE /\ out.phase = "returned"
             /\ out.called = << >>
             /\ out.value = Str(arg_val.text)

\* normalize_pid("10.1/a", "custom_upper") returned "10.1/A", the result of the
\* normalizer of custom_upper, registered after custom_scheme
C17_Witness ==
    /\ out.op = "normalize_pid"
    /\ arg_val.text = TXT_doi_bare
    /\ arg_scheme = "custom_upper"
    /\ Len(dreg) = 2
    /\ dreg[2].name = "custom_upper"
    /\ out.value = Str(upper(TXT_doi_bare))
    /\ out.value # Str(TXT_doi_bare)

\* C18: to_url of scheme purl or url returns the value it was given, whatever
\* url_scheme is; no normalizer or generator is invoked.
C18_UrlReturnedAsIs ==
    (out.op = "to_url" /\ arg_scheme \in {"purl", "url"}) =>
        /\ out.phase = "returned"
        /\ out.value.none = arg_val.none
        /\ out.value.text = arg_val.text
        /\ out.called = << >>

\* to_url("http://a.b/c", "url", "https") returned "http://a.b/c"
C18_Witness ==
    /\ out.op = "to_url"
    /\ arg_val.text = TXT_url
    /\ arg_scheme = "url"
    /\ arg_url_scheme = STR_https
    /\ out.value = Str(TXT_url)

\* the scheme resolves to nothing: it is in no table and either not registered
\* or registered with the default url generator
NonResolvable ==
    /\ arg_scheme \notin LandingSchemes
    /\ arg_scheme \notin {"purl", "url"}
    /\ \/ arg_scheme \notin RegNames(dreg)
       \/ "url_generator" \notin DOMAIN dreg[RegIndex(dreg, arg_scheme)].ep.config

\* C19 (as claimed): to_url of a string never returns None, and for a scheme
\* that is not resolvable it returns the empty string and does not raise.
C19_ToUrlReturnsString ==
    (out.op = "to_url" /\ ~arg_val.none) =>
        /\ out.phase = "returned" => ~out.value.none
        /\ NonResolvable => (out.phase = "returned" /\ out.value = Str(<< >>))

\* "://nbn-resolving.org/"
STR_nbn_resolving == << ":", "/", "/", "n", "b", "n", "-", "r", "e", "s", "o", "l", "v", "i", "n", "g", ".", "o", "r", "g", "/" >>

\* normalize_pid(val, "urn") for the value of the call made
NormalizedUrn == normalize_pid(dreg, arg_val, "urn").value.text

\* C20 (as claimed): to_url of scheme urn for a string returns the empty string
\* unless the normalized value starts with "urn:nbn:", and for such a value
\* url_scheme, "://nbn-resolving.org/" and the normalized value.
C20_UrnResolvesOnlyNbn ==
    (out.op = "to_url" /\ ~arg_val.none /\ arg_scheme = "urn") =>
        /\ out.phase = "returned"
        /\ out.value = IF startswith(NormalizedUrn, STR_urn_nbn)
                       THEN Str(arg_url_scheme \o STR_nbn_resolving \o NormalizedUrn)
                       ELSE Str(<< >>)

\* C20 (amended): to_url of scheme urn for a string returns the empty string
\* unless the normalized value starts with "urn:nbn:" in any letter case, and
\* for such a value url_scheme, "://nbn-resolving.org/" and the normalized value.
C20_UrnResolvesOnlyNbnAnyCase ==
    (out.op = "to_url" /\ ~arg_val.none /\ arg_scheme = "urn") =>
        /\ out.phase = "returned"
        /\ out.value = IF startswith(lower(NormalizedUrn), STR_urn_nbn)
                       THEN Str(arg_url_scheme \o STR_nbn_resolving \o NormalizedUrn)
                       ELSE Str(<< >>)

\* to_url("URN:NBN:de:1", "urn", "https") returned
\* "https://nbn-resolving.org/urn:NBN:de:1"
C20_Witness ==
    /\ out.op = "to_url"
    /\ arg_val.text = TXT_urn_nbn_upper
    /\ arg_scheme = "urn"
    /\ arg_url_scheme = STR_https
    /\ out.phase = "returned"
    /\ out.value.text = STR_https \o STR_nbn_resolving \o STR_urn \o Drop(TXT_urn_nbn_upper, 4)

\* "https://viaf.org/viaf/"
STR_viaf_landing == STR_https \o IDUTILS_LANDING_URLS["viaf"][1]

\* the text of s after its "viaf:" label, s itself when it has none
WithoutViafLabel(s) == IF startswith(s, STR_viaf) THEN Drop(s, Len(STR_viaf)) ELSE s

\* C21 (as claimed): to_url of scheme viaf for a string returns
\* "https://viaf.org/viaf/" followed by the normalized value without its
\* "viaf:" label whatever url_scheme is, so that the results for "http" and
\* "https" are equal.
C21_ViafAlwaysHttps ==
    (out.op = "to_url" /\ ~arg_val.none /\ arg_scheme = "viaf") =>
        /\ out.phase = "returned"
        /\ out.value = Str(STR_viaf_landing
                           \o WithoutViafLabel(normalize_pid(dreg, arg_val, "viaf").value.text))
        /\ to_url(dreg, arg_val, "viaf", STR_http) = to_url(dreg, arg_val, "viaf", STR_https)

\* s with a leading "http" replaced by "https", s itself when it has none
HttpToHttps(s) == IF startswith(s, STR_http) THEN STR_https \o Drop(s, Len(STR_http)) ELSE s

\* "://"
STR_colon_slashes == << ":", "/", "/" >>

\* to_url for the value and scheme of the call made, with url_scheme u
ToUrlWith(u) == to_url(dreg, arg_val, arg_scheme, u)

\* C22: for a scheme of the landing-URL table other than viaf, to_url with
\* "https" ends as to_url with "http" does (returns, or raises the same
\* error) and returns the result for "http" with its leading "http" replaced
\* by "https"; a result that is not empty starts with url_scheme and "://",
\* so url_scheme and not the scheme name fills {scheme}.
C22_UrlSchemeFillsPrefixOnly ==
    (out.op = "to_url" /\ arg_scheme \in LandingSchemes \ {"viaf"}) =>
        /\ out = [op |-> "to_url"] @@ ToUrlWith(arg_url_scheme)
        /\ ToUrlWith(STR_https).phase = ToUrlWith(STR_http).phase
        /\ ToUrlWith(STR_https).err = ToUrlWith(STR_http).err
        /\ out.phase = "returned" =>
              /\ ~out.value.none
              /\ ToUrlWith(STR_https).value.text = HttpToHttps(ToUrlWith(STR_http).value.text)
              /\ \/ out.value.text = << >> /\ arg_scheme = "urn"
                 \/ startswith(out.value.text, arg_url_scheme \o STR_colon_slashes)

\* to_url("doi: 10.1/a", "doi", "https") returned "https://doi.org/10.1/a"
C22_Witness ==
    /\ out.op = "to_url"
    /\ arg_val.text = TXT_doi_label
    /\ arg_scheme = "doi"
    /\ arg_url_scheme = STR_https
    /\ out.phase = "returned"
    /\ out.value.text = TXT_doi_url
    /\ ToUrlWith(STR_http).value.text = STR_http \o Drop(TXT_doi_url, Len(STR_https))

\* "https://custom_scheme2/12345ABC" style result: the text mock_url2 puts
\* before the value
STR_https_custom_scheme2 == STR_https \o STR_custom_scheme2_path

\* C23: to_url of a registered custom scheme returns what the url generator
\* registered under that very name returns for the caller's url_scheme and
\* normalize_pid(value, scheme), and invokes that generator only, after the
\* normalizer normalize_pid invoked.
C23_CustomGeneratorGetsNormalized ==
    (out.op = "to_url" /\ arg_scheme \in RegNames(dreg)) =>
        LET n == normalize_pid(dreg, arg_val, arg_scheme)
            config == dreg[RegIndex(dreg, arg_scheme)].config
        IN  /\ n.phase = "returned"
            /\ out.phase = "returned"
            /\ out.value = ApplyUrlGenerator(config.url_generator, arg_url_scheme, n.value)
            /\ out.called = n.called \o << "url_generator of " \o arg_scheme >>

\* to_url("10.1/a", "custom_upper", "https") returned the URL of "10.1/A",
\* from the generator of custom_upper, registered after custom_scheme
C23_Witness ==
    /\ out.op = "to_url"
    /\ arg_val.text = TXT_doi_bare
    /\ arg_scheme = "custom_upper"
    /\ arg_url_scheme = STR_https
    /\ Len(dreg) = 2
    /\ dreg[1].name = "custom_scheme"
    /\ dreg[2].name = "custom_upper"
    /\ out.value = Str(STR_https_custom_scheme2 \o upper(TXT_doi_bare))
    /\ out.value # Str(STR_https_custom_scheme2 \o TXT_doi_bare)
    /\ out.called = << "custom_upper", "url_generator of custom_upper" >>

----------------------------------------------------------------------------
(* Further claims about the detector, checked under SpecDetect              *)

\* C24 (as claimed): no built-in predicate raises, whatever the string is, and
\* so detect_identifier_schemes returns a list and does not raise.
C24_PredicatesNeverRaise ==
    Called =>
        /\ \A name \in BuiltinNames : ~test_raises(name, dval)
        /\ dout.phase = "returned"

----------------------------------------------------------------------------
(* Detection, normalization to the first scheme detected, and detection of  *)
(* the normalized value (tests/test_idutils.py, test_idempotence)           *)

\* "pmid:12345670"
TXT_pmid_label_ean8 == << "p", "m", "i", "d", ":", "1", "2", "3", "4", "5", "6", "7", "0" >>

\* "pmid:12345"
TXT_pmid_label == << "p", "m", "i", "d", ":", "1", "2", "3", "4", "5" >>

\* "12345670"
TXT_ean8_digits == << "1", "2", "3", "4", "5", "6", "7", "0" >>

\* "1/2"
TXT_hdl_bare == << "1", "/", "2" >>

\* "urn:NBN:de:1"
TXT_urn_NBN == << "u", "r", "n", ":", "N", "B", "N", ":", "d", "e", ":", "1" >>

\* "1562-6865"
TXT_issn_hyphen == << "1", "5", "6", "2", "-", "6", "8", "6", "5" >>

\* "arXiv:1310.2590"
TXT_arXiv_new == << "a", "r", "X", "i", "v", ":", "1", "3", "1", "0", ".", "2", "5", "9", "0" >>

\* "arXiv:math/0309136v2"
TXT_arXiv_old == << "a", "r", "X", "i", "v", ":", "m", "a", "t", "h", "/", "0", "3", "0", "9", "1", "3", "6", "v", "2" >>

\* "inserm-13102590"
TXT_hal_bare == << "i", "n", "s", "e", "r", "m", "-", "1", "3", "1", "0", "2", "5", "9", "0" >>

\* "2011ApJS..192...18K"
TXT_ads_bare == << "2", "0", "1", "1", "A", "p", "J", "S", ".", ".", "1", "9", "2", ".", ".", ".", "1", "8", "K" >>

\* "hdl:hdl:1/2"
TXT_hdl_doubled == << "h", "d", "l", ":", "h", "d", "l", ":", "1", "/", "2" >>

\* "hdl:1/2"
TXT_hdl_lower == << "h", "d", "l", ":", "1", "/", "2" >>

\* "viaf:12345"
TXT_viaf_label_5 == << "v", "i", "a", "f", ":", "1", "2", "3", "4", "5" >>

\* "CUSTOM_SCHEME_VALID"
TXT_custom_scheme_valid_upper == << "C", "U", "S", "T", "O", "M", "_", "S", "C", "H", "E", "M", "E", "_", "V", "A", "L", "I", "D" >>

\* the values the round trip is tried on and the values normalization turns
\* them into, each with the verdicts of the validators and patterns of
\* idutils/validators.py and idutils/utils.py on it
KnownValues ==
    { [text |-> TXT_pmid_label_ean8, re |-> {"pmid"}],
      [text |-> TXT_pmid_label, re |-> {"pmid"}],
      [text |-> TXT_digits, re |-> {"pmid", "viaf"}],
      [text |-> TXT_doi_label, re |-> {"doi", "handle"}],
      [text |-> TXT_doi_url, re |-> {"doi", "handle", "url"}],
      [text |-> TXT_hdl_label, re |-> {"handle"}],
      [text |-> TXT_hdl_http, re |-> {"handle", "url"}],
      [text |-> TXT_urn_nbn_upper, re |-> {"urn"}],
      [text |-> TXT_issn, re |-> {"issn"}],
      [text |-> TXT_orcid, re |-> {"isni", "orcid"}],
      [text |-> TXT_orcid_url, re |-> {"handle", "orcid", "url"}],
      [text |-> TXT_arxiv_new, re |-> {"arxiv", "arxiv_post_2007"}],
      [text |-> TXT_arxiv_old, re |-> {"arxiv", "arxiv_pre_2007_subclass", "handle"}],
      [text |-> TXT_viaf_2, re |-> {"handle", "url"}],
      [text |-> TXT_viaf_label_upper, re |-> {"viaf"}],
      [text |-> TXT_gnd_upper, re |-> {"gnd"}],
      [text |-> TXT_gnd_bare, re |-> {"gnd"}],
      [text |-> TXT_hal, re |-> {"hal"}],
      [text |-> TXT_ads, re |-> {"ads"}],
      [text |-> TXT_ascl, re |-> {"ascl"}],
      [text |-> TXT_url, re |-> {"handle", "url"}],
      [text |-> TXT_ror_url, re |-> {"handle", "ror", "url"}],
      [text |-> TXT_custom_scheme_valid, re |-> {}],
      [text |-> TXT_empty, re |-> {}],
      [text |-> TXT_bracket, re |-> {"handle"}],
      [text |-> TXT_ean8_digits, re |-> {"ean8", "pmid", "viaf"}],
      [text |-> TXT_doi_bare, re |-> {"doi", "handle"}],
      [text |-> TXT_hdl_bare, re |-> {"handle"}],
      [text |-> TXT_urn_NBN, re |-> {"urn"}],
      [text |-> TXT_issn_hyphen, re |-> {"gnd", "issn"}],
      [text |-> TXT_arXiv_new, re |-> {"arxiv", "arxiv_post_2007"}],
      [text |-> TXT_arXiv_old, re |-> {"arxiv", "handle"}],
      [text |-> TXT_viaf_label, re |-> {"viaf"}],
      [text |-> TXT_gnd_lower, re |-> {"gnd"}],
      [text |-> TXT_hal_bare, re |-> {"hal"}],
      [text |-> TXT_ads_bare, re |-> {"ads"}],
      [text |-> TXT_ror, re |-> {"ror"}],
      [text |-> TXT_custom_scheme_valid_upper, re |-> {}],
      [text |-> TXT_hdl_doubled, re |-> {"handle"}],
      [text |-> TXT_hdl_lower, re |-> {"handle"}],
      [text |-> TXT_viaf_label_5, re |-> {"viaf"}] }

\* the value with text t
ValueOf(t) == CHOOSE v \in KnownValues : v.text = t

\* the values the round trip starts from
RoundTripTexts ==
    { TXT_pmid_label_ean8,
      TXT_pmid_label,
      TXT_digits,
      TXT_doi_label,
      TXT_doi_url,
      TXT_hdl_label,
      TXT_hdl_http,
      TXT_urn_nbn_upper,
      TXT_issn,
      TXT_orcid,
      TXT_orcid_url,
      TXT_arxiv_new,
      TXT_arxiv_old,
      TXT_viaf_2,
      TXT_viaf_label_upper,
      TXT_gnd_upper,
      TXT_gnd_bare,
      TXT_hal,
      TXT_ads,
      TXT_ascl,
      TXT_url,
      TXT_ror_url,
      TXT_custom_scheme_valid,
      TXT_empty,
      TXT_bracket }

RoundTripValues == {v \in KnownValues : v.text \in RoundTripTexts}

\* normalize_pid(val, schemes[0]) for the value detected
NormalizeFirst ==
    /\ Detected
    /\ dout.result # << >>
    /\ out = NoCall
    /\ arg_val' = Value(dval.text, dval.re)
    /\ arg_scheme' = Head(dout.result)
    /\ out' = [op |-> "normalize_pid"] @@ normalize_pid(custom_schemes_registry, arg_val', arg_scheme')
    /\ UNCHANGED arg_url_scheme
    /\ UNCHANGED <<regvars, detvars, callvars>>

\* detect_identifier_schemes(normalize_pid(val, schemes[0]))
DetectAgain ==
    /\ out.op = "normalize_pid"
    /\ out.phase = "returned"
    /\ dval.text = arg_val.text
    /\ dval' = ValueOf(out.value.text)
    /\ dout' = detect_identifier_schemes(current_idutils, dval')
    /\ UNCHANGED dreg
    /\ UNCHANGED <<regvars, urlvars, callvars>>

InitRoundTrip ==
    /\ entry_points = << >>
    /\ lock = 0
    /\ _instance = 0
    /\ objects = << >>
    /\ pc = [t \in Threads |-> "idle"]
    /\ self = [t \in Threads |-> 0]
    /\ todo = [t \in Threads |-> << >>]
    /\ ret = [t \in Threads |-> 0]
    /\ calls = 0
    /\ loads = 0
    /\ failure = ""
    /\ dval \in RoundTripValues
    /\ dreg \in UrlRegistries
    /\ dout = NoResult
    /\ arg_val = NoValue
    /\ arg_scheme = ""
    /\ arg_url_scheme = << >>
    /\ out = NoCall
    /\ tables = NoTables
    /\ seen = NoHistory

NextRoundTrip ==
    \/ Detect
    \/ NormalizeFirst
    \/ DetectAgain

SpecRoundTrip == InitRoundTrip /\ [][NextRoundTrip]_vars

\* the normalized value has been detected: the list in dout is that of
\* detect_identifier_schemes(normalize_pid(val, schemes[0]))
Redetected ==
    /\ out.op = "normalize_pid"
    /\ out.phase = "returned"
    /\ dval.text = out.value.text
    /\ Detected

----------------------------------------------------------------------------
(* Sequences of calls of detect_identifier_schemes, normalize_pid, to_url   *)
(* and pick_scheme_key on one constructed registry.  The lists a call can   *)
(* reach and change in place are IDUTILS_PID_SCHEMES, IDUTILS_SCHEME_FILTER *)
(* (variable tables) and the registry (variable dreg).                      *)

\* the module-level lists as the import of idutils.detectors leaves them
InitialTables == [pid_schemes |-> IDUTILS_PID_SCHEMES, scheme_filter |-> IDUTILS_SCHEME_FILTER]

\* the objects a call can reach
Reachable == [pid_schemes |-> tables.pid_schemes, scheme_filter |-> tables.scheme_filter,
              registry |-> dreg]

\* schemes bound to the scheme table itself (schemes = IDUTILS_PID_SCHEMES)
schemes_object_is_table == "pid_schemes"

\* schemes = [] and schemes = list(filter(...)): the name is bound to a new
\* list each time, one that no table and no registry entry refers to
schemes_object == "new"

\* a list changed in place: the object reached through obj has the new
\* content; a new list is dropped when the call returns
Write(g, obj, content) == IF obj = "new" THEN g ELSE [g EXCEPT ![obj] = content]

\* what a call of detect_identifier_schemes leaves of the reachable objects:
\* schemes.append and schemes.remove act on the list bound to schemes;
\* IDUTILS_PID_SCHEMES + ... and IDUTILS_SCHEME_FILTER + ... build new lists,
\* and remove_schemes, the registry's own filter list, is only read
detect_effects(g, d) == Write(g, schemes_object, d.result)

\* the values, schemes and keys the calls are made with
CallTexts == {TXT_doi_url, TXT_custom_scheme_valid}

CallValues == {ValueOf(t) : t \in CallTexts}

CallSchemes == {"doi", "custom_scheme"}

CallEnvironments == { << >>, << ep_custom_scheme, ep_custom_filter >> }

CallRegistries ==
    {LoadAll(<< >>, order).reg : order \in UNION {IterationOrders(env) : env \in CallEnvironments}}

NotCalled == [called |-> FALSE, again |-> FALSE, first |-> NoResult, last |-> NoResult,
              since |-> FALSE, between |-> FALSE]

\* some call other than detect_identifier_schemes(t) was made after the first
\* one of it
OtherCall(h, t) == IF h[t].called THEN [h[t] EXCEPT !.since = TRUE] ELSE h[t]

\* detect_identifier_schemes(val), val one of the sample values
DetectCall ==
    \E v \in CallValues :
        /\ seen # NoHistory
        /\ dval' = v
        /\ dout' = detect_identifier_schemes(current_idutils, v)
        /\ tables' = [pid_schemes   |-> detect_effects(Reachable, dout').pid_schemes,
                      scheme_filter |-> detect_effects(Reachable, dout').scheme_filter]
        /\ dreg' = detect_effects(Reachable, dout').registry
        /\ seen' = [seen EXCEPT !.calls =
                      [u \in CallTexts |->
                          IF u # v.text THEN OtherCall(seen.calls, u)
                          ELSE IF ~seen.calls[u].called
                          THEN [NotCalled EXCEPT !.called = TRUE, !.first = dout', !.last = dout']
                          ELSE [seen.calls[u] EXCEPT !.again = TRUE, !.last = dout',
                                                     !.between = seen.calls[u].since]]]
        /\ UNCHANGED <<regvars, urlvars>>

\* normalize_pid(val, scheme): builds strings, changes no list
NormalizeCall ==
    \E t \in CallTexts, s \in CallSchemes :
        /\ seen # NoHistory
        /\ arg_val' = Value(t, ValueOf(t).re)
        /\ arg_scheme' = s
        /\ arg_url_scheme' = << >>
        /\ out' = [op |-> "normalize_pid"] @@ normalize_pid(custom_schemes_registry, arg_val', s)
        /\ seen' = [seen EXCEPT !.calls = [u \in CallTexts |-> OtherCall(seen.calls, u)]]
        /\ UNCHANGED <<regvars, detvars, tables>>

\* to_url(val, scheme, url_scheme): builds strings, changes no list
ToUrlCall ==
    \E t \in CallTexts, s \in CallSchemes :
        /\ seen # NoHistory
        /\ arg_val' = Value(t, ValueOf(t).re)
        /\ arg_scheme' = s
        /\ arg_url_scheme' = STR_http
        /\ out' = [op |-> "to_url"] @@ to_url(custom_schemes_registry, arg_val', s, STR_http)
        /\ seen' = [seen EXCEPT !.calls = [u \in CallTexts |-> OtherCall(seen.calls, u)]]
        /\ UNCHANGED <<regvars, detvars, tables>>

\* pick_scheme_key(key): a new list of pairs, built by a comprehension
PickSchemeKeyCall ==
    \E key \in ConfigKeys :
        /\ seen # NoHistory
        /\ out' = [op |-> "pick_scheme_key", key |-> key, value |-> pick_scheme_key(dreg, key)]
        /\ seen' = [seen EXCEPT !.calls = [u \in CallTexts |-> OtherCall(seen.calls, u)]]
        /\ UNCHANGED <<arg_val, arg_scheme, arg_url_scheme>>
        /\ UNCHANGED <<regvars, detvars, tables>>

InitCalls ==
    /\ entry_points = << >>
    /\ lock = 0
    /\ _instance = 0
    /\ objects = << >>
    /\ pc = [t \in Threads |-> "idle"]
    /\ self = [t \in Threads |-> 0]
    /\ todo = [t \in Threads |-> << >>]
    /\ ret = [t \in Threads |-> 0]
    /\ calls = 0
    /\ loads = 0
    /\ failure = ""
    /\ dval = NoValue
    /\ dreg \in CallRegistries
    /\ dout = NoResult
    /\ arg_val = NoValue
    /\ arg_scheme = ""
    /\ arg_url_scheme = << >>
    /\ out = NoCall
    /\ tables = InitialTables
    /\ seen = [registry |-> dreg, calls |-> [t \in CallTexts |-> NotCalled]]

NextCalls ==
    \/ DetectCall
    \/ NormalizeCall
    \/ ToUrlCall
    \/ PickSchemeKeyCall

SpecCalls == InitCalls /\ [][NextCalls]_vars

C27_TriggerExcludesTargets ==
    Detected =>
        \A i \in 1..Len(scheme_filter(dreg)) :
            scheme_filter(dreg)[i][1] \in Range(dout.result) =>
                \A target \in Range(scheme_filter(dreg)[i][2]) \ {scheme_filter(dreg)[i][1]} :
                    target \notin Range(dout.result)

\* a value accepted as pmid and as viaf: the pmid rule ran, as did another
\* rule, and pmid is returned without viaf
C27_Witness ==
    /\ Detected
    /\ "pmid" \in Range(dout.result)
    /\ "viaf" \in Range(dout.candidates)
    /\ "viaf" \notin Range(dout.result)
    /\ \E i \in dout.fired : scheme_filter(dreg)[i][1] = "pmid"
    /\ Cardinality(dout.fired) >= 2

\* the custom schemes registered without a validator key: their validator is
\* the default one, lambda x: True
WithoutValidatorKey(reg) ==
    {pair[1] : pair \in {p \in Range(pick_scheme_key(reg, "validator")) : p[2] = default_config.validator}}

\* name is among the accepted schemes and is returned unless a custom rule
\* that ran names it
KeptUnlessCustomRule(name) ==
    /\ name \in Range(dout.candidates)
    /\ \/ name \in Range(dout.result)
       \/ \E i \in dout.fired :
              /\ i > Len(IDUTILS_SCHEME_FILTER)
              /\ name \in Range(scheme_filter(dreg)[i][2])

\* C28: a custom scheme registered without a validator key is among the
\* accepted schemes of every call of detect_identifier_schemes, whatever the
\* value, and is returned unless the rule of a custom scheme removes it.
C28_DefaultValidatorAcceptsAll ==
    Called => \A name \in WithoutValidatorKey(dreg) : KeptUnlessCustomRule(name)

\* C28, for the calls that return: the same, and no built-in rule names a
\* custom scheme
C28_DefaultValidatorAcceptsAllReturned ==
    Detected =>
        /\ \A name \in WithoutValidatorKey(dreg) : KeptUnlessCustomRule(name)
        /\ \A i \in 1..Len(IDUTILS_SCHEME_FILTER), j \in 1..Len(dreg) :
               dreg[j].name \notin Range(IDUTILS_SCHEME_FILTER[i][2])

----------------------------------------------------------------------------
(* Claims about the lock, checked under SpecFair                            *)

\* C29: a thread that is not inside a call of CustomSchemesRegistry() does
\* not hold the lock, whether its call returned or raised, and every call
\* that a thread begins ends: it returns or raises.
C29_LockReleasedCallsEnd ==
    /\ [](\A t \in Threads : pc[t] \in {"idle", "return"} => lock # t)
    /\ \A t \in Threads : (pc[t] # "idle") ~> (pc[t] = "idle")

\* the load raised in one thread's call, and a call of another thread that
\* took the lock after it has returned
C29_Witness ==
    \E t, u \in Threads :
        /\ ret[t] = RAISED
        /\ failure # ""
        /\ ret[u] = 1
        /\ pc[u] = "idle"
        /\ lock = 0

----------------------------------------------------------------------------
(* normalize_pid applied to its own result                                  *)

\* the built-in schemes whose normalizer cuts off a label or rewrites the value
RewritingSchemes ==
    {"doi", "handle", "ads", "pmid", "arxiv", "orcid", "gnd", "issn", "hal", "ror", "urn", "viaf"}

\* the values normalize_pid is applied to
TwiceValues == {Value(ValueOf(t).text, ValueOf(t).re) : t \in RoundTripTexts \cup {TXT_hdl_doubled}}

\* normalize_pid(val, scheme)
NormalizeOnce ==
    /\ out = NoCall
    /\ out' = [op |-> "normalize_pid"] @@ normalize_pid(custom_schemes_registry, arg_val, arg_scheme)
    /\ UNCHANGED <<arg_val, arg_scheme, arg_url_scheme>>
    /\ UNCHANGED <<regvars, detvars, callvars>>

\* normalize_pid(normalize_pid(val, scheme), scheme): dval is the first result,
\* with the verdicts of the validators and patterns on it
NormalizeTwice ==
    /\ out.op = "normalize_pid"
    /\ out.phase = "returned"
    /\ dval' = ValueOf(out.value.text)
    /\ out' = [op |-> "normalize_pid_twice"]
                @@ normalize_pid(custom_schemes_registry, Value(dval'.text, dval'.re), arg_scheme)
    /\ UNCHANGED <<dreg, dout>>
    /\ UNCHANGED <<arg_val, arg_scheme, arg_url_scheme>>
    /\ UNCHANGED <<regvars, callvars>>

\* a value and a scheme whose validator accepts it
InitTwice ==
    /\ entry_points = << >>
    /\ lock = 0
    /\ _instance = 0
    /\ objects = << >>
    /\ pc = [t \in Threads |-> "idle"]
    /\ self = [t \in Threads |-> 0]
    /\ todo = [t \in Threads |-> << >>]
    /\ ret = [t \in Threads |-> 0]
    /\ calls = 0
    /\ loads = 0
    /\ failure = ""
    /\ dval = NoValue
    /\ dreg \in UrlRegistries
    /\ dout = NoResult
    /\ arg_val \in TwiceValues
    /\ arg_scheme \in RewritingSchemes
    /\ test(arg_scheme, arg_val)
    /\ arg_url_scheme = << >>
    /\ out = NoCall
    /\ tables = NoTables
    /\ seen = NoHistory

NextTwice ==
    \/ NormalizeOnce
    \/ NormalizeTwice

SpecTwice == InitTwice /\ [][NextTwice]_vars

\* the second normalize_pid returned what the first did
SameAgain ==
    /\ out.phase = "returned"
    /\ ~out.value.none
    /\ out.value.text = dval.text

\* C30: for each of the twelve schemes and every value its validator
\* accepts, normalize_pid does not raise and normalize_pid of the result
\* gives the result again.
C30_NormalizeIdempotent ==
    /\ out.op = "normalize_pid" => out.phase = "returned"
    /\ out.op = "normalize_pid_twice" => SameAgain

\* C30, for the values that are not handles whose first result begins with a
\* handle label or resolver again
C30_NormalizeIdempotentOneLabel ==
    /\ out.op = "normalize_pid" => out.phase = "returned"
    /\ (/\ out.op = "normalize_pid_twice"
        /\ ~(/\ arg_scheme = "handle"
             /\ \E i \in 1..Len(handle_wrappers) : startswith(lower(dval.text), handle_wrappers[i])))
       => SameAgain

\* "HDL:1/2" normalized as a handle gave "1/2", and "1/2" gave "1/2"
C30_Witness ==
    /\ out.op = "normalize_pid_twice"
    /\ arg_val.text = TXT_hdl_label
    /\ arg_scheme = "handle"
    /\ dval.text = TXT_hdl_bare
    /\ out.value = Str(TXT_hdl_bare)

====
